---- MODULE Spec2Model ----
(***************************************************************************)
(* A model of the bitstring library: the stream layer (ConstBitStream and  *)
(* BitStream, src/bitstring/bitstream.py) over the mutable BitArray        *)
(* (src/bitstring/bitarray_.py), Bits (src/bitstring/bits.py) and the      *)
(* BitStore buffer (src/bitstring/bitstore.py); Dtype equality,            *)
(* AllowedLengths and read_fn (src/bitstring/dtypes.py); the token parser  *)
(* (src/bitstring/utils.py); pack (src/bitstring/methods.py); the MXFP     *)
(* encoder (src/bitstring/mxfp.py); Array (src/bitstring/array_.py).       *)
(*                                                                         *)
(* One object is modelled: its class (kind), its bits (the content of      *)
(* _bitstore, in storage order, index 1 is the leftmost bit), its cursor   *)
(* (_pos) and a record of the last call made on it (the arguments, the     *)
(* state before the call, the exception raised and the value returned);    *)
(* copied is the object made from it by __copy__, if any. Each action is   *)
(* one whole method call, except for the replace of SpecLoop, which runs   *)
(* one pass of its loop at a time. The calls of Dtype, the token parser,   *)
(* pack, MXFPFormat and AllowedLengths are made on no bitstring.           *)
(***************************************************************************)
EXTENDS Integers, Sequences, FiniteSets, TLC

VARIABLES kind, bits, pos, last, copied

vars == <<kind, bits, pos, last, copied>>

-----------------------------------------------------------------------------
(* Bounds of the model.                                                    *)

\* longest bitstring the object may hold
MaxLen == 4
\* longest bitstring passed as an argument (bs, old, new, value)
MaxSub == 2
\* largest length written in a token (uint:n, bits:n)
MaxTokLen == 2
\* most positions in one iterable passed to set / invert
MaxPosList == 2
\* largest factor written in a format string (below 10: one digit)
MaxFactor == 2
\* most tokens in one bracketed group of a format string
MaxItems == 2
\* how many steps of half a unit in the last place above the largest finite
\* magnitude the values encoded as MXFP go
MaxOver == 8
\* the largest of the small lengths put in a tuple of allowed lengths
MaxAllowed == 3
\* most bytes in a bitstring given to byteswap
MaxBytes == 2
\* most tokens in one readlist / peeklist format
MaxToks == 2

-----------------------------------------------------------------------------
(* Python values.                                                          *)

\* Python's None where an Optional[int] argument or a Dtype length is absent
None == -99

\* bits per unit of length of the bytes dtype
ByteBits == 8

Bit == {0, 1}

BitSeqs(n) == UNION {[1..k -> Bit] : k \in 0..n}

Min(S) == CHOOSE x \in S : \A y \in S : x <= y

Max(S) == CHOOSE x \in S : \A y \in S : x >= y

\* a returned Python value: kind says which of n (a number) and b (bits) counts
Val(k, n, b) == [kind |-> k, n |-> n, b |-> b]

\* the outcome of a method call: the object's bits and cursor after it, the
\* exception it raised ("" for none) and the values it returned
Out(b, p, e, r) == [bits |-> b, pos |-> p, err |-> e, ret |-> r]

\* the arguments of a call, one record shape for every method
Args(bs, new, a, b, c, ba, fmt) ==
    [bs |-> bs, new |-> new, a |-> a, b |-> b, c |-> c, ba |-> ba, fmt |-> fmt]

-----------------------------------------------------------------------------
(* BitStore: the buffer.                                                   *)

\* Python's clamping of one slice bound to 0..n
SliceIndex(i, n) ==
    IF i < 0 THEN (IF i + n < 0 THEN 0 ELSE i + n)
    ELSE (IF i > n THEN n ELSE i)

\* BitStore.__getitem__ with a slice a:b (step 1); None is an omitted bound
getslice(s, a, b) ==
    LET n  == Len(s)
        lo == IF a = None THEN 0 ELSE SliceIndex(a, n)
        hi == IF b = None THEN n ELSE SliceIndex(b, n)
    IN  IF lo < hi THEN SubSeq(s, lo + 1, hi) ELSE <<>>

\* BitStore.__add__: a copy of s with t appended
add(s, t) == s \o t

\* BitStore.append, Bits._append (absent from the source): s grows by t
append_store(s, t) == s \o t

\* BitStore.__setitem__ with a slice a:b: Python slice assignment
setslice(s, a, b, v) ==
    LET n   == Len(s)
        lo  == IF a = None THEN 0 ELSE SliceIndex(a, n)
        hi0 == IF b = None THEN n ELSE SliceIndex(b, n)
        hi  == IF hi0 < lo THEN lo ELSE hi0
    IN  SubSeq(s, 1, lo) \o v \o SubSeq(s, hi + 1, n)

\* BitStore.__delitem__ with a slice a:b
delslice(s, a, b) == setslice(s, a, b, <<>>)

\* the positions where sub occurs in s wholly inside [start, end)
Matches(s, sub, start, end, bytealigned) ==
    {p \in start..(end - Len(sub)) :
        /\ p >= 0
        /\ p + Len(sub) <= Len(s)
        /\ SubSeq(s, p + 1, p + Len(sub)) = sub
        /\ (bytealigned => p % ByteBits = 0)}

\* BitStore.find: the first match, or -1
find_store(s, sub, start, end, bytealigned) ==
    LET M == Matches(s, sub, start, end, bytealigned)
    IN  IF M = {} THEN -1 ELSE Min(M)

\* BitStore.rfind: the last match, or -1
rfind_store(s, sub, start, end, bytealigned) ==
    LET M == Matches(s, sub, start, end, bytealigned)
    IN  IF M = {} THEN -1 ELSE Max(M)

\* BitStore.__getitem__ with the slice ::-1: the bits in reverse order
reversed_store(s) == [i \in 1..Len(s) |-> s[Len(s) + 1 - i]]

\* BitStore.getindex: the exception it raises on index i, "" for none
getindex_error(s, i) ==
    LET j == IF i < 0 THEN i + Len(s) ELSE i
    IN  IF j < 0 \/ j >= Len(s) THEN "IndexError" ELSE ""

\* BitStore.getindex for an index in range: _bitarray[len(self) - 1 - i]
getindex(s, i) ==
    LET j == IF i < 0 THEN i + Len(s) ELSE i
    IN  s[(Len(s) - 1 - j) + 1]

\* BitStore.__setitem__ with an integer key 0 <= i < len (absent from the
\* source): bit i becomes v
setindex(s, i, v) == [s EXCEPT ![i + 1] = v]

\* BitStore.__invert__ (absent from the source): every bit toggled
invert_store(s) == [i \in 1..Len(s) |-> 1 - s[i]]

-----------------------------------------------------------------------------
(* Dtype: tokens and their decoding.                                       *)

\* a token such as uint:2; name "#" is a bare Python integer given as fmt
Tok(name, length) == [name |-> name, length |-> length]

\* Dtype.length: in units of bits_per_item, None for a variable-length dtype
dtype_length(tok) ==
    CASE tok.name = "ue"   -> None
      [] tok.name = "bool" -> 1
      [] OTHER             -> tok.length

\* Dtype.bits_per_item
bits_per_item(tok) == IF tok.name = "bytes" THEN ByteBits ELSE 1

\* Dtype.bitlength: the bits one value occupies, None for variable length
bitlength(tok) ==
    IF dtype_length(tok) = None THEN None
    ELSE dtype_length(tok) * bits_per_item(tok)

RECURSIVE getuint(_)
\* Bits._getuint: big-endian, most significant bit first
getuint(s) ==
    IF s = <<>> THEN 0
    ELSE 2 * getuint(SubSeq(s, 1, Len(s) - 1)) + s[Len(s)]

\* Bits._getbytes: the bits padded with zeros up to a whole number of bytes
getbytes(s) ==
    LET padn == (ByteBits - (Len(s) % ByteBits)) % ByteBits
    IN  s \o [i \in 1..padn |-> 0]

\* the exception Dtype.get_fn raises on the bits s, "" for none: a dtype with
\* one allowed length (bool) checks it, an integer needs at least one bit
get_fn_error(tok, s) ==
    IF tok.name = "bool" /\ Len(s) # 1 THEN "InterpretError"
    ELSE IF tok.name = "uint" /\ s = <<>> THEN "InterpretError"
    ELSE ""

\* Dtype.get_fn of a fixed-length dtype applied to the bits s
get_fn(tok, s) ==
    CASE tok.name = "uint"  -> Val("int", getuint(s), <<>>)
      [] tok.name = "bool"  -> Val("bool", s[1], <<>>)
      [] tok.name = "bits"  -> Val("bits", 0, s)
      [] tok.name = "bytes" -> Val("bytes", 0, getbytes(s))
      [] tok.name = "pad"   -> Val("None", 0, <<>>)

\* the leading zero bits of s from position p (0-based)
RECURSIVE LeadingZeros(_, _)
LeadingZeros(s, p) ==
    IF p >= Len(s) \/ s[p + 1] = 1 THEN 0 ELSE 1 + LeadingZeros(s, p + 1)

\* Bits._readue: the exp-Golomb code at p: k zeros, then k+1 bits holding value+1
readue(s, p) ==
    LET k == LeadingZeros(s, p)
        q == p + k
    IN  IF q + k + 1 > Len(s)
        THEN [err |-> "ReadError", value |-> 0, newpos |-> p]
        ELSE [err |-> "",
              value |-> getuint(SubSeq(s, q + 1, q + k + 1)) - 1,
              newpos |-> q + k + 1]

-----------------------------------------------------------------------------
(* ConstBitStream: the cursor and the reading methods.                     *)

\* ConstBitStream._setbitpos
setbitpos(s, p, newpos) ==
    IF newpos < 0 \/ newpos > Len(s)
    THEN Out(s, p, "ValueError", <<>>)
    ELSE Out(s, newpos, "", <<>>)

\* ConstBitStream._setbytepos
setbytepos(s, p, bytepos) ==
    IF bytepos * ByteBits > Len(s)
    THEN Out(s, p, "ValueError", <<>>)
    ELSE Out(s, bytepos * ByteBits, "", <<>>)

\* ConstBitStream.read: the cursor moves by dtype.length; None + int is a
\* TypeError; an exception of get_fn leaves the cursor where it was
read(s, p, fmt) ==
    LET tok    == IF fmt.name = "#" THEN Tok("bits", fmt.length) ELSE fmt
        length == dtype_length(tok)
    IN  IF length = None THEN Out(s, p, "TypeError", <<>>)
        ELSE IF p + length > Len(s) THEN Out(s, p, "ReadError", <<>>)
        ELSE LET sl == getslice(s, p, p + length)
             IN  IF get_fn_error(tok, sl) # ""
                 THEN Out(s, p, get_fn_error(tok, sl), <<>>)
                 ELSE Out(s, p + length, "", <<get_fn(tok, sl)>>)

peek_keeps_pos_on_error_only(s, p, fmt) ==
    LET r == read(s, p, fmt)
    IN  IF r.err = "" THEN r ELSE Out(r.bits, p, r.err, r.ret)

\* ConstBitStream.peek: read, then the cursor is put back in the finally clause
peek(s, p, fmt) ==
    LET r == read(s, p, fmt)
    IN  Out(r.bits, p, r.err, r.ret)

RECURSIVE readlist_from(_, _, _, _, _)
\* the loop of ConstBitStream.readlist from token i on, acc the values so far
readlist_from(s, p, fmt, i, acc) ==
    IF i > Len(fmt) THEN Out(s, p, "", acc)
    ELSE LET r == read(s, p, fmt[i])
         IN  IF r.err # "" THEN Out(r.bits, r.pos, r.err, <<>>)
             ELSE readlist_from(r.bits, r.pos, fmt, i + 1,
                      IF fmt[i].name = "pad" THEN acc ELSE acc \o r.ret)

\* ConstBitStream.readlist
readlist(s, p, fmt) == readlist_from(s, p, fmt, 1, <<>>)

\* ConstBitStream.peeklist (a stub in the source): readlist, cursor put back
peeklist(s, p, fmt) ==
    LET r == readlist(s, p, fmt)
    IN  Out(r.bits, p, r.err, r.ret)

find_ignores_end(s, p, bs, start, end, bytealigned) ==
    IF bs = <<>> THEN Out(s, p, "ValueError", <<>>)
    ELSE LET st == IF start = None THEN 0 ELSE start
             en == IF end = None THEN Len(s) ELSE end
         IN  IF st < 0 \/ en > Len(s) \/ en < st
             THEN Out(s, p, "ValueError", <<>>)
             ELSE LET st8   == IF bytealigned
                               THEN ((st + 7) \div ByteBits) * ByteBits ELSE st
                      found == find_store(s, bs, st8, Len(s), bytealigned)
                  IN  IF found >= 0
                      THEN Out(s, found, "", <<Val("int", found, <<>>)>>)
                      ELSE Out(s, p, "", <<>>)

\* ConstBitStream.find
find(s, p, bs, start, end, bytealigned) ==
    IF bs = <<>> THEN Out(s, p, "ValueError", <<>>)
    ELSE LET st == IF start = None THEN 0 ELSE start
             en == IF end = None THEN Len(s) ELSE end
         IN  IF st < 0 \/ en > Len(s) \/ en < st
             THEN Out(s, p, "ValueError", <<>>)
             ELSE LET st8   == IF bytealigned
                               THEN ((st + 7) \div ByteBits) * ByteBits ELSE st
                      found == find_store(s, bs, st8, en, bytealigned)
                  IN  IF found >= 0
                      THEN Out(s, found, "", <<Val("int", found, <<>>)>>)
                      ELSE Out(s, p, "", <<>>)

\* ConstBitStream.rfind
rfind(s, p, bs, start, end, bytealigned) ==
    IF bs = <<>> THEN Out(s, p, "ValueError", <<>>)
    ELSE LET st == IF start = None THEN 0 ELSE start
             en == IF end = None THEN Len(s) ELSE end
         IN  IF st < 0 \/ en > Len(s) \/ en < st
             THEN Out(s, p, "ValueError", <<>>)
             ELSE LET st8   == IF bytealigned
                               THEN ((st + 7) \div ByteBits) * ByteBits ELSE st
                      found == rfind_store(s, bs, st8, en, bytealigned)
                  IN  IF found >= 0
                      THEN Out(s, found, "", <<Val("int", found, <<>>)>>)
                      ELSE Out(s, p, "", <<>>)

\* ConstBitStream.readto: find moves the cursor to the match before the slice
\* self[self._pos:end] is taken
readto(s, p, bs, bytealigned) ==
    IF bs = <<>> THEN Out(s, p, "ValueError", <<>>)
    ELSE LET f == find(s, p, bs, p, None, bytealigned)
         IN  IF f.err # "" THEN f
             ELSE IF f.ret = <<>> THEN Out(s, p, "ReadError", <<>>)
             ELSE LET end == f.ret[1].n + Len(bs)
                  IN  Out(s, end, "", <<Val("bits", 0, getslice(s, f.pos, end))>>)

-----------------------------------------------------------------------------
(* ConstBitStream and BitStream: the methods that change the bits.         *)

\* ConstBitStream.append (BitStream inherits it)
ConstBitStream_append(s, p, bs) ==
    LET s2 == append_store(s, bs)
    IN  Out(s2, Len(s2), "", <<>>)

\* an overwrite that leaves the cursor where it was
overwrite_keeps_pos(s, p, bs, posarg) ==
    LET at == IF posarg = None THEN p ELSE posarg
    IN  IF at < 0 \/ at > Len(s) THEN Out(s, p, "ValueError", <<>>)
        ELSE LET end == at + Len(bs)
             IN  IF end > Len(s)
                 THEN Out(append_store(s, bs), p, "", <<>>)
                 ELSE Out(setslice(s, at, end, bs), p, "", <<>>)

\* ConstBitStream.overwrite (BitStream inherits it): past the end the whole of
\* bs is appended
ConstBitStream_overwrite(s, p, bs, posarg) ==
    LET at == IF posarg = None THEN p ELSE posarg
    IN  IF at < 0 \/ at > Len(s) THEN Out(s, p, "ValueError", <<>>)
        ELSE LET end == at + Len(bs)
             IN  IF end > Len(s)
                 THEN Out(append_store(s, bs), end, "", <<>>)
                 ELSE Out(setslice(s, at, end, bs), end, "", <<>>)

\* BitStream.__iadd__
BitStream_iadd(s, p, bs) ==
    LET s2 == append_store(s, bs)
    IN  Out(s2, Len(s2), "", <<>>)

\* BitStream.prepend
BitStream_prepend(s, p, bs) == Out(add(bs, s), p + Len(bs), "", <<>>)

setitem_keeps_pos(s, p, a, b, value) == Out(setslice(s, a, b, value), p, "", <<>>)

\* BitStream.__setitem__ with a slice key a:b
BitStream_setitem(s, p, a, b, value) ==
    LET s2 == setslice(s, a, b, value)
    IN  Out(s2, IF Len(s2) # Len(s) THEN 0 ELSE p, "", <<>>)

\* BitStream.__delitem__ with a slice key a:b
BitStream_delitem(s, p, a, b) ==
    LET s2 == delslice(s, a, b)
    IN  Out(s2, IF Len(s2) # Len(s) THEN 0 ELSE p, "", <<>>)

\* BitStream.insert
BitStream_insert(s, p, bs, posarg) ==
    LET at == IF posarg = None THEN p ELSE posarg
    IN  IF at < 0 \/ at > Len(s) THEN Out(s, p, "ValueError", <<>>)
        ELSE Out(add(add(getslice(s, None, at), bs), getslice(s, at, None)),
                 at + Len(bs), "", <<>>)

RECURSIVE replace_loop(_, _, _, _, _, _, _, _, _)
\* the while loop of BitStream.replace; find moves the cursor to each match
replace_loop(s, p, old, new, at, end, count, bytealigned, replacements) ==
    IF count = 0 THEN Out(s, p, "", <<Val("int", replacements, <<>>)>>)
    ELSE LET f == find(s, p, old, at, end, bytealigned)
         IN  IF f.err # "" THEN Out(s, p, f.err, <<>>)
             ELSE IF f.ret = <<>>
             THEN Out(s, p, "", <<Val("int", replacements, <<>>)>>)
             ELSE LET m  == f.ret[1].n
                      s2 == add(add(getslice(s, None, m), new),
                                getslice(s, m + Len(old), None))
                  IN  replace_loop(s2, m, old, new, m + Len(new),
                                   end + Len(new) - Len(old), count - 1,
                                   bytealigned, replacements + 1)

\* BitStream.replace
BitStream_replace(s, p, old, new, start, end, count, bytealigned) ==
    IF old = <<>> THEN Out(s, p, "ValueError", <<>>)
    ELSE LET st == IF start = None THEN 0 ELSE start
             en == IF end = None THEN Len(s) ELSE end
             ct == IF count = None THEN -1 ELSE count
         IN  IF st < 0 \/ en > Len(s) \/ st > en
             THEN Out(s, p, "ValueError", <<>>)
             ELSE replace_loop(s, p, old, new, st, en, ct, bytealigned, 0)

\* BitArray.clear (BitStream inherits it): the cursor is not touched
BitArray_clear(s, p) == Out(<<>>, p, "", <<>>)

-----------------------------------------------------------------------------
(* BitArray: the methods BitStream overrides.                              *)

insert_before_bit(s, p, bs, at) ==
    IF at < 0 \/ at > Len(s) THEN Out(s, p, "ValueError", <<>>)
    ELSE Out(add(add(getslice(s, None, at - 1), bs), getslice(s, at - 1, None)),
             p, "", <<>>)

\* BitArray.insert
BitArray_insert(s, p, bs, at) ==
    IF at < 0 \/ at > Len(s) THEN Out(s, p, "ValueError", <<>>)
    ELSE Out(add(add(getslice(s, None, at), bs), getslice(s, at, None)),
             p, "", <<>>)

\* BitArray.overwrite: past the end the bits after pos are dropped
BitArray_overwrite(s, p, bs, at) ==
    IF at < 0 \/ at > Len(s) THEN Out(s, p, "ValueError", <<>>)
    ELSE LET end == at + Len(bs)
         IN  IF end > Len(s)
             THEN Out(add(getslice(s, None, at), bs), p, "", <<>>)
             ELSE Out(add(add(getslice(s, None, at), bs), getslice(s, end, None)),
                      p, "", <<>>)

\* BitArray.append
BitArray_append(s, p, bs) == Out(add(s, bs), p, "", <<>>)

\* BitArray.prepend
BitArray_prepend(s, p, bs) == Out(add(bs, s), p, "", <<>>)

RECURSIVE BitArray_replace_loop(_, _, _, _, _, _, _, _)
\* the while loop of BitArray.replace: end keeps the value it had on entry
BitArray_replace_loop(s, old, new, at, end, count, bytealigned, replacements) ==
    IF ~(at <= end - Len(old) /\ replacements # count)
    THEN [bits |-> s, n |-> replacements]
    ELSE IF bytealigned /\ at % ByteBits # 0
    THEN BitArray_replace_loop(s, old, new, at + 1, end, count, bytealigned,
                               replacements)
    ELSE IF getslice(s, at, at + Len(old)) = old
    THEN BitArray_replace_loop(setslice(s, at, at + Len(old), new), old, new,
                               at + Len(new), end, count, bytealigned,
                               replacements + 1)
    ELSE BitArray_replace_loop(s, old, new, at + 1, end, count, bytealigned,
                               replacements)

\* BitArray.replace
BitArray_replace(s, p, old, new, start, end, count, bytealigned) ==
    IF old = <<>> THEN Out(s, p, "ValueError", <<>>)
    ELSE LET st == IF start = None THEN 0 ELSE start
             en == IF end = None THEN Len(s) ELSE end
             ct == IF count = None THEN -1 ELSE count
         IN  IF st < 0 \/ en > Len(s) \/ st > en
             THEN Out(s, p, "ValueError", <<>>)
             ELSE LET r == BitArray_replace_loop(s, old, new, st, en, ct,
                                                 bytealigned, 0)
                  IN  Out(r.bits, p, "", <<Val("int", r.n, <<>>)>>)

reverse_whole(s, p, start, end) ==
    IF s = <<>> THEN Out(s, p, "", <<>>)
    ELSE LET st == IF start = None THEN 0 ELSE start
             en == IF end = None THEN Len(s) ELSE end
         IN  IF st < 0 \/ en > Len(s) \/ en < st
             THEN Out(s, p, "ValueError", <<>>)
             ELSE Out(reversed_store(s), p, "", <<>>)

\* BitArray.reverse
BitArray_reverse(s, p, start, end) ==
    IF s = <<>> THEN Out(s, p, "", <<>>)
    ELSE LET st == IF start = None THEN 0 ELSE start
             en == IF end = None THEN Len(s) ELSE end
         IN  IF st < 0 \/ en > Len(s) \/ en < st
             THEN Out(s, p, "ValueError", <<>>)
             ELSE Out(add(add(getslice(s, None, st),
                              reversed_store(getslice(s, st, en))),
                          getslice(s, en, None)),
                      p, "", <<>>)

\* BitArray.ror
BitArray_ror(s, p, n, start, end) ==
    IF n < 0 THEN Out(s, p, "ValueError", <<>>)
    ELSE LET st == IF start = None THEN 0 ELSE start
             en == IF end = None THEN Len(s) ELSE end
         IN  IF st < 0 \/ en > Len(s) \/ st >= en
             THEN Out(s, p, "ValueError", <<>>)
             ELSE LET k == n % (en - st)
                  IN  IF n = 0 \/ k = 0 THEN Out(s, p, "", <<>>)
                      ELSE Out(add(add(getslice(s, None, st),
                                       add(getslice(s, en - k, en),
                                           getslice(s, st, en - k))),
                                   getslice(s, en, None)),
                               p, "", <<>>)

\* BitArray.rol
BitArray_rol(s, p, n, start, end) ==
    IF n < 0 THEN Out(s, p, "ValueError", <<>>)
    ELSE LET st == IF start = None THEN 0 ELSE start
             en == IF end = None THEN Len(s) ELSE end
         IN  IF st < 0 \/ en > Len(s) \/ st >= en
             THEN Out(s, p, "ValueError", <<>>)
             ELSE LET k == n % (en - st)
                  IN  IF n = 0 \/ k = 0 THEN Out(s, p, "", <<>>)
                      ELSE Out(add(add(getslice(s, None, st),
                                       add(getslice(s, st + k, en),
                                           getslice(s, st, st + k))),
                                   getslice(s, en, None)),
                               p, "", <<>>)

RECURSIVE set_each(_, _, _, _, _)
\* the for loop of BitArray.set over the positions ps from the i-th on: the
\* bits set before an IndexError stay set
set_each(s, p, value, ps, i) ==
    IF i > Len(ps) THEN Out(s, p, "", <<>>)
    ELSE IF ps[i] < 0 - Len(s) \/ ps[i] >= Len(s)
    THEN Out(s, p, "IndexError", <<>>)
    ELSE set_each(setindex(s, IF ps[i] < 0 THEN Len(s) + ps[i] ELSE ps[i], value),
                  p, value, ps, i + 1)

\* BitArray.set: iter says that pos is an iterable (ps), otherwise it is the
\* integer or None at
BitArray_set(s, p, value, iter, at, ps) ==
    IF iter THEN set_each(s, p, value, ps, 1)
    ELSE IF at = None THEN Out([i \in 1..Len(s) |-> value], p, "", <<>>)
    ELSE set_each(s, p, value, <<at>>, 1)

RECURSIVE invert_each(_, _, _, _)
\* the for loop of BitArray.invert: bit p becomes the negation of what
\* BitStore.__getitem__ returns for p
invert_each(s, p, ps, i) ==
    IF i > Len(ps) THEN Out(s, p, "", <<>>)
    ELSE IF ps[i] < 0 - Len(s) \/ ps[i] >= Len(s)
    THEN Out(s, p, "IndexError", <<>>)
    ELSE LET q == IF ps[i] < 0 THEN Len(s) + ps[i] ELSE ps[i]
         IN  invert_each(setindex(s, q, 1 - getindex(s, q)), p, ps, i + 1)

\* BitArray.invert
BitArray_invert(s, p, iter, at, ps) ==
    IF iter THEN invert_each(s, p, ps, 1)
    ELSE IF at = None THEN Out(invert_store(s), p, "", <<>>)
    ELSE invert_each(s, p, <<at>>, 1)

\* Bits.__getitem__ with an integer key
Bits_getitem(s, p, key) ==
    IF getindex_error(s, key) # "" THEN Out(s, p, getindex_error(s, key), <<>>)
    ELSE Out(s, p, "", <<Val("bool", getindex(s, key), <<>>)>>)

-----------------------------------------------------------------------------
(* Bits: concatenation.                                                    *)

\* Bits._copy (a stub in the source): a new bitstring with the same bits
Bits_copy(s) == s

\* Bits._addright (a stub in the source): bs is added on the right of s
addright(s, bs) == s \o bs

\* Bits._addleft (a stub in the source): bs is added on the left of s
addleft(s, bs) == bs \o s

concat_longer_first(s, bs) ==
    IF Len(bs) <= Len(s) THEN addright(Bits_copy(s), bs)
    ELSE addright(Bits_copy(bs), s)

\* the bits of the result of Bits.__add__: the longer operand is copied and
\* the other one added to it
Bits_concat(s, bs) ==
    IF Len(bs) <= Len(s) THEN addright(Bits_copy(s), bs)
    ELSE addleft(Bits_copy(bs), s)

\* Bits.__add__: self is left as it was
Bits_add(s, p, bs) == Out(s, p, "", <<Val("bits", 0, Bits_concat(s, bs))>>)

\* Bits.__radd__: bs.__add__(self)
Bits_radd(s, p, bs) == Out(s, p, "", <<Val("bits", 0, Bits_concat(bs, s))>>)

-----------------------------------------------------------------------------
(* Dtype: equality and hash.                                               *)

\* a Dtype instance: _name, _length and _scale
Dtype(name, length, scale) == [name |-> name, length |-> length, scale |-> scale]

\* Dtype.__eq__ between two Dtype instances
Dtype_eq(x, y) == x.name = y.name /\ x.length = y.length

\* Dtype.__hash__: the hash of a tuple, one value per tuple
Dtype_hash(x) == <<x.name, x.length>>

-----------------------------------------------------------------------------
(* utils: the token parser. A string is a sequence of one-character        *)
(* strings.                                                                *)

DigitChars == <<"0", "1", "2", "3", "4", "5", "6", "7", "8", "9">>

IsDigit(c) == \E d \in 1..Len(DigitChars) : DigitChars[d] = c

IsLetter(c) == c \in {"a", "b", "c", "u", "i", "n", "t"}

RECURSIVE int(_)
\* int(w) for a string w of digits
int(w) ==
    IF w = <<>> THEN 0
    ELSE 10 * int(SubSeq(w, 1, Len(w) - 1))
         + (CHOOSE d \in 1..Len(DigitChars) : DigitChars[d] = w[Len(w)]) - 1

\* int(w) raises ValueError unless w is a non-empty string of digits
IsInt(w) == w # <<>> /\ \A i \in 1..Len(w) : IsDigit(w[i])

RECURSIVE join(_, _)
\* ','.join([sub] * factor)
join(sub, factor) ==
    IF factor <= 0 THEN <<>>
    ELSE IF factor = 1 THEN sub
    ELSE sub \o <<",">> \o join(sub, factor - 1)

\* where BRACKET_RE, (\d+)\*\(, matches in s: the digits start at i
BracketStarts(s) ==
    {i \in 1..Len(s) :
        \E j \in i..(Len(s) - 2) :
           /\ \A k \in i..j : IsDigit(s[k])
           /\ s[j + 1] = "*"
           /\ s[j + 2] = "("}

RECURSIVE expand_brackets(_)
\* utils.expand_brackets: the first N*( is expanded up to the first ) after
\* it, until no N*( is left; s.index raises ValueError when there is no )
expand_brackets(s) ==
    IF BracketStarts(s) = {} THEN [err |-> "", s |-> s]
    ELSE LET start  == Min(BracketStarts(s))
             star   == Min({j \in start..Len(s) : s[j] = "*"})
             factor == int(SubSeq(s, start, star - 1))
             Ends   == {e \in start..Len(s) : s[e] = ")"}
         IN  IF Ends = {} THEN [err |-> "ValueError", s |-> s]
             ELSE LET end == Min(Ends)
                      sub == SubSeq(s, star + 2, end - 1)
                  IN  expand_brackets(SubSeq(s, 1, start - 1) \o join(sub, factor)
                                      \o SubSeq(s, end + 1, Len(s)))

RECURSIVE split(_)
\* fmt.split(','): the pieces between the commas
split(s) ==
    IF \A i \in 1..Len(s) : s[i] # "," THEN <<s>>
    ELSE LET c == Min({i \in 1..Len(s) : s[i] = ","})
         IN  <<SubSeq(s, 1, c - 1)>> \o split(SubSeq(s, c + 1, Len(s)))

RECURSIVE strip(_)
\* token.strip()
strip(w) ==
    IF w # <<>> /\ w[1] = " " THEN strip(Tail(w))
    ELSE IF w # <<>> /\ w[Len(w)] = " " THEN strip(SubSeq(w, 1, Len(w) - 1))
    ELSE w

\* the tokens one piece of the format string stands for: MULTIPLICATIVE_RE
\* takes the factor before the last * that has something after it, then
\* NAME_INT_RE takes a name and a length, then DEFAULT_BITS a bare length
parse_token(w) ==
    LET Stars  == {i \in 1..(Len(w) - 1) : w[i] = "*"}
        mult   == Stars # {}
        fstr   == IF mult THEN SubSeq(w, 1, Max(Stars) - 1) ELSE <<>>
        token  == IF mult THEN SubSeq(w, Max(Stars) + 1, Len(w)) ELSE w
        factor == IF mult THEN int(fstr) ELSE 1
        NonDig == {i \in 1..Len(token) : ~IsDigit(token[i])}
        cut    == IF NonDig = {} THEN 0 ELSE Max(NonDig)
        lenstr == SubSeq(token, cut + 1, Len(token))
        length == IF lenstr = <<>> THEN None ELSE int(lenstr)
        isname == /\ token # <<>>
                  /\ IsLetter(token[1])
                  /\ \A i \in 1..cut : IsLetter(token[i]) \/ IsDigit(token[i])
    IN  IF mult /\ ~IsInt(fstr) THEN [err |-> "ValueError", tokens |-> <<>>]
        ELSE IF isname
        THEN [err |-> "",
              tokens |-> [i \in 1..factor |->
                             [name |-> SubSeq(token, 1, cut), length |-> length]]]
        ELSE IF token = <<>> \/ IsInt(token)
        THEN [err |-> "",
              tokens |-> [i \in 1..factor |->
                             [name |-> <<"b", "i", "t", "s">>, length |-> length]]]
        ELSE [err |-> "ValueError", tokens |-> <<>>]

RECURSIVE parse_tokens(_, _, _)
\* the for loop of tokenparser over the pieces from the i-th on
parse_tokens(pieces, i, acc) ==
    IF i > Len(pieces) THEN [err |-> "", tokens |-> acc]
    ELSE LET r == parse_token(strip(pieces[i]))
         IN  IF r.err # "" THEN [err |-> r.err, tokens |-> <<>>]
             ELSE parse_tokens(pieces, i + 1, acc \o r.tokens)

\* utils.tokenparser with no keys: (name, length) of every token
tokenparser(fmt) ==
    LET e == expand_brackets(fmt)
    IN  IF e.err # "" THEN [err |-> e.err, tokens |-> <<>>]
        ELSE parse_tokens(split(e.s), 1, <<>>)

-----------------------------------------------------------------------------
(* methods: pack.                                                          *)

\* methods.pack: the two results of tokenparser are bound the wrong way
\* round, tokens to the stretchy flag (a bool) and _ to the token list, so the
\* for loop over tokens raises TypeError once the format string has parsed
pack(fmt, values) ==
    LET r == tokenparser(fmt)
    IN  IF r.err # "" THEN Out(<<>>, 0, r.err, <<>>)
        ELSE Out(<<>>, 0, "TypeError", <<>>)

-----------------------------------------------------------------------------
(* BitArray: byteswap.                                                     *)

RECURSIVE sum(_)
\* sum(fmt)
sum(fmt) == IF fmt = <<>> THEN 0 ELSE fmt[1] + sum(Tail(fmt))

RECURSIVE reversed_bytes(_)
\* tobytes()[::-1] made a bitstring again (BitStore.tobytes is absent from the
\* source): the bytes of s, a whole number of them, in reverse order
reversed_bytes(s) ==
    IF Len(s) < ByteBits THEN s
    ELSE reversed_bytes(SubSeq(s, ByteBits + 1, Len(s))) \o SubSeq(s, 1, ByteBits)

RECURSIVE byteswap_pattern(_, _, _, _)
\* the for loop of BitArray.byteswap over the sizes of fmt from the i-th on
byteswap_pattern(s, at, fmt, i) ==
    IF i > Len(fmt) THEN [bits |-> s, pos |-> at]
    ELSE byteswap_pattern(
            setslice(s, at, at + fmt[i], reversed_bytes(getslice(s, at, at + fmt[i]))),
            at + fmt[i], fmt, i + 1)

RECURSIVE byteswap_loop(_, _, _, _, _, _)
\* the while loop of BitArray.byteswap
byteswap_loop(s, at, fmt, end, repeat, repeats) ==
    IF at + sum(fmt) > end THEN [bits |-> s, n |-> repeats]
    ELSE LET r == byteswap_pattern(s, at, fmt, 1)
         IN  IF ~repeat THEN [bits |-> r.bits, n |-> repeats + 1]
             ELSE byteswap_loop(r.bits, r.pos, fmt, end, repeat, repeats + 1)

\* BitArray.byteswap: fmt is None (isint, n = None), an integer (isint, n) or
\* an iterable of integers (lst); every size is a size in bits, an integer
\* fmt stands for that many sizes of 8 and sizes that are no multiple of 8 are
\* dropped
BitArray_byteswap(s, p, isint, n, lst, start, end, repeat) ==
    LET st == IF start = None THEN 0 ELSE start
        en == IF end = None THEN Len(s) ELSE end
    IN  IF st < 0 \/ en > Len(s) \/ st > en THEN Out(s, p, "ValueError", <<>>)
        ELSE LET fmt0 == IF isint /\ (n = None \/ n = 0)
                         THEN [i \in 1..((en - st) \div ByteBits) |-> ByteBits]
                         ELSE IF isint THEN [i \in 1..n |-> ByteBits]
                         ELSE lst
                 IsWhole(f) == f % ByteBits = 0
                 fmt  == SelectSeq(fmt0, IsWhole)
             IN  IF fmt = <<>> \/ sum(fmt) = 0
                 THEN Out(s, p, "", <<Val("int", 0, <<>>)>>)
                 ELSE LET r == byteswap_loop(s, st, fmt, en, repeat, 0)
                      IN  Out(r.bits, p, "", <<Val("int", r.n, <<>>)>>)

-----------------------------------------------------------------------------
(* mxfp: encoding a float. A magnitude is a whole number of quarters.      *)

\* the denominator of the magnitudes
Quarter == 4

RECURSIVE Pow2(_)
Pow2(n) == IF n <= 0 THEN 1 ELSE 2 * Pow2(n - 1)

RECURSIVE BitOr(_, _)
\* a | b for a, b >= 0
BitOr(a, b) ==
    IF a = 0 THEN b
    ELSE IF b = 0 THEN a
    ELSE 2 * BitOr(a \div 2, b \div 2) + (IF a % 2 = 1 \/ b % 2 = 1 THEN 1 ELSE 0)

\* math.floor(math.log2(f)) for f = f4 / 4 >= 1
RECURSIVE floor_log2(_)
floor_log2(f4) == IF f4 < 2 * Quarter THEN 0 ELSE 1 + floor_log2(f4 \div 2)

\* round(n / d) for n >= 0, d > 0: to the nearest integer, a tie to the even one
round(n, d) ==
    LET q == n \div d
        r == n % d
    IN  IF 2 * r < d THEN q
        ELSE IF 2 * r > d THEN q + 1
        ELSE IF q % 2 = 0 THEN q ELSE q + 1

\* MXFPFormat.__init__: the fields and the two clamp values
MXFPFormat(name, exp_bits, mantissa_bits, bias, mxfp_overflow) ==
    LET is43 == exp_bits = 4 /\ mantissa_bits = 3
        is52 == exp_bits = 5 /\ mantissa_bits = 2
        sat  == mxfp_overflow = "saturate"
    IN  [name |-> name, exp_bits |-> exp_bits, mantissa_bits |-> mantissa_bits,
         bias |-> bias, mxfp_overflow |-> mxfp_overflow,
         pos_clamp_value |->
            IF is52 THEN (IF sat THEN 123 ELSE 124)
            ELSE IF is43 THEN (IF sat THEN 126 ELSE 255)
            ELSE Pow2(exp_bits + mantissa_bits) - 1,
         neg_clamp_value |->
            IF is52 THEN (IF sat THEN 251 ELSE 252)
            ELSE IF is43 THEN (IF sat THEN 254 ELSE 255)
            ELSE Pow2(1 + exp_bits + mantissa_bits) - 1]

\* MXFPFormat.float_to_int for a float that is neither NaN nor 0 and has a
\* magnitude of at least 1: sign 1 for f < 0, f4 the magnitude in quarters,
\* isinf for an infinity
float_to_int(fmt, sign, f4, isinf) ==
    IF isinf \/ f4 >= Quarter * Pow2(Pow2(fmt.exp_bits) - fmt.bias)
    THEN (IF sign = 1 THEN fmt.neg_clamp_value ELSE fmt.pos_clamp_value)
    ELSE LET e0       == floor_log2(f4)
             exp      == IF e0 > 1 - fmt.bias THEN e0 ELSE 1 - fmt.bias
             mantissa == round((f4 - Quarter * Pow2(exp)) * Pow2(fmt.mantissa_bits),
                               Quarter * Pow2(exp))
         IN  BitOr(BitOr(sign * Pow2(fmt.exp_bits + fmt.mantissa_bits),
                         (exp + fmt.bias) * Pow2(fmt.mantissa_bits)),
                   mantissa)

-----------------------------------------------------------------------------
(* __copy__: the second object is its _bitstore reference and its _pos.    *)
(* shared says that its _bitstore is the very store of the first object;   *)
(* otherwise bits is the content of a store of its own.                    *)

\* BitStore._copy: a new store with a copy of the bits
store_copy(s) == s

\* ConstBitStream.__copy__: the new object is given the same store
ConstBitStream_copy(s) == [shared |-> TRUE, bits |-> <<>>, pos |-> 0]

\* BitStream.__copy__: the store is copied
BitStream_copy(s) == [shared |-> FALSE, bits |-> store_copy(s), pos |-> 0]

\* BitArray.__copy__: the store is copied
BitArray_copy(s) == [shared |-> FALSE, bits |-> store_copy(s), pos |-> 0]

\* the bits read through the second object
getbits(c, s) == IF c.shared THEN s ELSE c.bits

-----------------------------------------------------------------------------
(* dtypes: AllowedLengths and the read_fn of a DtypeDefinition.            *)

\* the Ellipsis that ends the tuple of an arithmetic progression
Ellipsis == -98

\* AllowedLengths.__init__: the values kept, or ValueError for an unequally
\* spaced tuple ending in an Ellipsis
AllowedLengths(value) ==
    IF Len(value) >= 3 /\ value[Len(value)] = Ellipsis
    THEN LET step == value[2] - value[1]
         IN  IF \E i \in 1..(Len(value) - 2) : value[i + 1] - value[i] # step
             THEN [err |-> "ValueError", values |-> <<>>]
             ELSE [err |-> "", values |-> <<value[1], value[2], Ellipsis>>]
    ELSE [err |-> "", values |-> value]

\* AllowedLengths.__contains__, for a progression with values[1] > values[0]
contains(values, other) ==
    IF values = <<>> THEN TRUE
    ELSE IF values[Len(values)] = Ellipsis
    THEN (other - values[1]) % (values[2] - values[1]) = 0
    ELSE \E i \in 1..Len(values) : values[i] = other

\* AllowedLengths.only_one_value
only_one_value(values) == Len(values) = 1

\* the allowed_lengths a family is defined with
allowed_lengths(name) == IF name = "bool" THEN <<1>> ELSE <<>>

\* DtypeDefinition.read_fn of the family of tok on the buffer s at start. A
\* variable-length family returns the value and the position after its code.
read_fn(tok, s, start) ==
    IF tok.name = "ue"
    THEN LET r == readue(getslice(s, start, None), 0)
         IN  IF r.err # "" THEN Out(s, 0, r.err, <<>>)
             ELSE Out(s, 0, "", <<Val("int", r.value, <<>>),
                                  Val("int", start + r.newpos, <<>>)>>)
    ELSE IF only_one_value(allowed_lengths(tok.name))
    THEN LET sl == getslice(s, start, start + allowed_lengths(tok.name)[1])
         IN  IF ~contains(allowed_lengths(tok.name), Len(sl))
             THEN Out(s, 0, "InterpretError", <<>>)
             ELSE Out(s, 0, "", <<get_fn(tok, sl)>>)
    ELSE LET length == tok.length
         IN  IF Len(s) < start + length THEN Out(s, 0, "ReadError", <<>>)
             ELSE LET sl == getslice(s, start, start + length)
                  IN  IF get_fn_error(tok, sl) # ""
                      THEN Out(s, 0, get_fn_error(tok, sl), <<>>)
                      ELSE Out(s, 0, "", <<get_fn(tok, sl)>>)

-----------------------------------------------------------------------------
(* replace, one iteration of its while loop at a time. at, end, count and  *)
(* replacements are the loop's local variables.                            *)

\* the local variables on entry to the loop of replace, or ValueError
replace_enter(s, old, start, end, count) ==
    IF old = <<>> THEN [err |-> "ValueError", at |-> 0, end |-> 0, count |-> 0]
    ELSE LET st == IF start = None THEN 0 ELSE start
             en == IF end = None THEN Len(s) ELSE end
             ct == IF count = None THEN -1 ELSE count
         IN  IF st < 0 \/ en > Len(s) \/ st > en
             THEN [err |-> "ValueError", at |-> 0, end |-> 0, count |-> 0]
             ELSE [err |-> "", at |-> st, end |-> en, count |-> ct]

\* one test of the loop condition of BitArray.replace and, if it holds, one
\* pass through the body
BitArray_replace_step(s, p, old, new, at, end, count, bytealigned, replacements) ==
    LET frame(done, s2, at2, n) ==
            [done |-> done, err |-> "", bits |-> s2, pos |-> p, at |-> at2,
             end |-> end, count |-> count, replacements |-> n]
    IN  IF ~(at <= end - Len(old) /\ replacements # count)
        THEN frame(TRUE, s, at, replacements)
        ELSE IF bytealigned /\ at % ByteBits # 0
        THEN frame(FALSE, s, at + 1, replacements)
        ELSE IF getslice(s, at, at + Len(old)) = old
        THEN frame(FALSE, setslice(s, at, at + Len(old), new), at + Len(new),
                   replacements + 1)
        ELSE frame(FALSE, s, at + 1, replacements)

\* a pass that finds old again where it found it before
step_without_advance(s, p, old, new, at, end, count, bytealigned, replacements) ==
    LET frame(done, err, s2, p2, at2, end2, count2, n) ==
            [done |-> done, err |-> err, bits |-> s2, pos |-> p2, at |-> at2,
             end |-> end2, count |-> count2, replacements |-> n]
    IN  IF count = 0 THEN frame(TRUE, "", s, p, at, end, count, replacements)
        ELSE LET f == find(s, p, old, at, end, bytealigned)
             IN  IF f.err # ""
                 THEN frame(TRUE, f.err, s, p, at, end, count, replacements)
                 ELSE IF f.ret = <<>>
                 THEN frame(TRUE, "", s, p, at, end, count, replacements)
                 ELSE LET m  == f.ret[1].n
                          s2 == add(add(getslice(s, None, m), new),
                                    getslice(s, m + Len(old), None))
                      IN  frame(FALSE, "", s2, m, m, end, count - 1,
                                replacements + 1)

\* one test of the loop condition of BitStream.replace and, if it holds, one
\* pass through the body
BitStream_replace_step(s, p, old, new, at, end, count, bytealigned, replacements) ==
    LET frame(done, err, s2, p2, at2, end2, count2, n) ==
            [done |-> done, err |-> err, bits |-> s2, pos |-> p2, at |-> at2,
             end |-> end2, count |-> count2, replacements |-> n]
    IN  IF count = 0 THEN frame(TRUE, "", s, p, at, end, count, replacements)
        ELSE LET f == find(s, p, old, at, end, bytealigned)
             IN  IF f.err # ""
                 THEN frame(TRUE, f.err, s, p, at, end, count, replacements)
                 ELSE IF f.ret = <<>>
                 THEN frame(TRUE, "", s, p, at, end, count, replacements)
                 ELSE LET m  == f.ret[1].n
                          s2 == add(add(getslice(s, None, m), new),
                                    getslice(s, m + Len(old), None))
                      IN  frame(FALSE, "", s2, m, m + Len(new),
                                end + Len(new) - Len(old), count - 1,
                                replacements + 1)

-----------------------------------------------------------------------------
(* Array: the items of a uint dtype of w bits in the BitArray data.        *)

\* Array.__len__
Array_len(s, w) == Len(s) \div w

\* Array.__getitem__ with an integer key
Array_getitem(s, w, key) ==
    LET k == IF key < 0 THEN key + Array_len(s, w) ELSE key
    IN  IF k < 0 \/ k >= Array_len(s, w) THEN Out(s, 0, "IndexError", <<>>)
        ELSE read_fn(Tok("uint", w), s, w * k)

\* Array.insert: the element is created and data.insert is called with the
\* bit position as bs and the element as pos; BitArray.insert compares its
\* pos with 0, which for a Bits raises TypeError
Array_insert(s, w, i, x) ==
    LET k == IF i < 0 THEN i + Array_len(s, w) ELSE i
    IN  IF k < 0 \/ k > Array_len(s, w) THEN Out(s, 0, "IndexError", <<>>)
        ELSE Out(s, 0, "TypeError", <<>>)

\* Array.pop
Array_pop(s, w, i) ==
    LET k == IF i < 0 THEN i + Array_len(s, w) ELSE i
    IN  IF k < 0 \/ k >= Array_len(s, w) THEN Out(s, 0, "IndexError", <<>>)
        ELSE LET start   == k * w
                 end     == start + w
                 element == read_fn(Tok("uint", w), s, start)
             IN  IF element.err # "" THEN Out(s, 0, element.err, <<>>)
                 ELSE Out(delslice(s, start, end), 0, "", element.ret)

-----------------------------------------------------------------------------
(* The state machine.                                                      *)

StreamKinds == {"ConstBitStream", "BitStream"}

Kinds == StreamKinds \cup {"BitArray"}

\* the bitstrings passed as arguments
Subs == BitSeqs(MaxSub)

\* positions passed as arguments, one below and one above the valid ones
Positions == -1..(Len(bits) + 1)

\* the tokens passed to read and peek
Tokens ==
    {Tok("uint", n) : n \in 1..MaxTokLen} \cup {Tok("bits", n) : n \in 0..MaxTokLen}
    \cup {Tok("#", n) : n \in 0..MaxTokLen}
    \cup {Tok("bool", None), Tok("pad", 1), Tok("bytes", 1), Tok("ue", None)}

\* the tokens of the formats passed to readlist and peeklist
ListTokens ==
    {Tok("uint", n) : n \in 1..MaxTokLen}
    \cup {Tok("#", 1), Tok("pad", 1), Tok("bytes", 1), Tok("ue", None)}

Formats == UNION {[1..k -> ListTokens] : k \in 0..MaxToks}

NoArgs == Args(<<>>, <<>>, None, None, None, FALSE, <<>>)

\* no call is in progress: the caller holds the object between two calls
NoCall ==
    [op |-> "idle", args |-> NoArgs, prebits |-> <<>>, prepos |-> 0,
     err |-> "", ret |-> <<>>]

\* the caller holds the object and may make the next call
\* no second object: copy has not been called
NoCopy == <<>>

Idle == last = NoCall

\* one call: the object moves to the outcome o and the call is recorded; the
\* model stops at MaxLen bits and at a cursor MaxSub past them
Call(op, args, o) ==
    /\ Len(o.bits) <= MaxLen
    /\ o.pos \in (0 - ByteBits)..(MaxLen + MaxSub)
    /\ bits' = o.bits
    /\ pos' = o.pos
    /\ last' = [op |-> op, args |-> args, prebits |-> bits, prepos |-> pos,
                err |-> o.err, ret |-> o.ret]
    /\ UNCHANGED <<kind, copied>>

\* ConstBitStream.__init__ / BitStream.__init__ / BitArray.__init__: pos is
\* checked against the length; a BitArray has no cursor (pos stays 0)
InitKinds(K) ==
    /\ kind \in K
    /\ bits \in BitSeqs(MaxLen)
    /\ pos \in 0..Len(bits)
    /\ (kind = "BitArray" => pos = 0)
    /\ last = NoCall
    /\ copied = NoCopy

\* the caller has taken the result of the call (the value or the exception)
Return ==
    /\ last # NoCall
    /\ last.err # "running"
    /\ last' = NoCall
    /\ UNCHANGED <<kind, bits, pos, copied>>

SetPos ==
    /\ Idle
    /\ kind \in StreamKinds
    /\ \E n \in Positions :
          Call("pos", [NoArgs EXCEPT !.a = n], setbitpos(bits, pos, n))

SetBytePos ==
    /\ Idle
    /\ kind \in StreamKinds
    /\ \E n \in -1..1 :
          Call("bytepos", [NoArgs EXCEPT !.a = n], setbytepos(bits, pos, n))

Read ==
    /\ Idle
    /\ kind \in StreamKinds
    /\ \E tok \in Tokens :
          Call("read", [NoArgs EXCEPT !.fmt = <<tok>>], read(bits, pos, tok))

Peek ==
    /\ Idle
    /\ kind \in StreamKinds
    /\ \E tok \in Tokens :
          Call("peek", [NoArgs EXCEPT !.fmt = <<tok>>], peek(bits, pos, tok))

ReadList ==
    /\ Idle
    /\ kind \in StreamKinds
    /\ \E fmt \in Formats :
          Call("readlist", [NoArgs EXCEPT !.fmt = fmt], readlist(bits, pos, fmt))

PeekList ==
    /\ Idle
    /\ kind \in StreamKinds
    /\ \E fmt \in Formats :
          Call("peeklist", [NoArgs EXCEPT !.fmt = fmt], peeklist(bits, pos, fmt))

ReadTo ==
    /\ Idle
    /\ kind \in StreamKinds
    /\ \E bs \in Subs, ba \in BOOLEAN :
          Call("readto", [NoArgs EXCEPT !.bs = bs, !.ba = ba],
               readto(bits, pos, bs, ba))

Find(Starts, Ends) ==
    /\ Idle
    /\ kind \in StreamKinds
    /\ \E bs \in Subs, a \in Starts, b \in Ends, ba \in BOOLEAN :
          Call("find", [NoArgs EXCEPT !.bs = bs, !.a = a, !.b = b, !.ba = ba],
               find(bits, pos, bs, a, b, ba))

RFind(Starts, Ends) ==
    /\ Idle
    /\ kind \in StreamKinds
    /\ \E bs \in Subs, a \in Starts, b \in Ends, ba \in BOOLEAN :
          Call("rfind", [NoArgs EXCEPT !.bs = bs, !.a = a, !.b = b, !.ba = ba],
               rfind(bits, pos, bs, a, b, ba))

StreamAppend ==
    /\ Idle
    /\ kind \in StreamKinds
    /\ \E bs \in Subs :
          Call("append", [NoArgs EXCEPT !.bs = bs],
               ConstBitStream_append(bits, pos, bs))

Overwrite ==
    /\ Idle
    /\ kind \in StreamKinds
    /\ \E bs \in Subs, a \in Positions \cup {None} :
          Call("overwrite", [NoArgs EXCEPT !.bs = bs, !.a = a],
               ConstBitStream_overwrite(bits, pos, bs, a))

IAdd ==
    /\ Idle
    /\ kind = "BitStream"
    /\ \E bs \in Subs :
          Call("iadd", [NoArgs EXCEPT !.bs = bs], BitStream_iadd(bits, pos, bs))

Prepend ==
    /\ Idle
    /\ kind = "BitStream"
    /\ \E bs \in Subs :
          Call("prepend", [NoArgs EXCEPT !.bs = bs],
               BitStream_prepend(bits, pos, bs))

SetItem ==
    /\ Idle
    /\ kind = "BitStream"
    /\ \E a \in 0..Len(bits), b \in 0..Len(bits), v \in Subs :
          Call("setitem", [NoArgs EXCEPT !.a = a, !.b = b, !.new = v],
               BitStream_setitem(bits, pos, a, b, v))

DelItem ==
    /\ Idle
    /\ kind = "BitStream"
    /\ \E a \in 0..Len(bits), b \in 0..Len(bits) :
          Call("delitem", [NoArgs EXCEPT !.a = a, !.b = b],
               BitStream_delitem(bits, pos, a, b))

Insert ==
    /\ Idle
    /\ kind = "BitStream"
    /\ \E bs \in Subs, a \in Positions \cup {None} :
          Call("insert", [NoArgs EXCEPT !.bs = bs, !.a = a],
               BitStream_insert(bits, pos, bs, a))

Replace(Starts, Ends, Counts) ==
    /\ Idle
    /\ kind = "BitStream"
    /\ \E old \in Subs, new \in Subs, a \in Starts, b \in Ends, c \in Counts :
          Call("replace",
               [NoArgs EXCEPT !.bs = old, !.new = new, !.a = a, !.b = b, !.c = c],
               BitStream_replace(bits, pos, old, new, a, b, c, FALSE))

Clear ==
    /\ Idle
    /\ kind \in {"BitStream", "BitArray"}
    /\ Call("clear", NoArgs, BitArray_clear(bits, pos))

ArrayInsert ==
    /\ Idle
    /\ kind = "BitArray"
    /\ \E bs \in Subs, a \in Positions :
          Call("insert", [NoArgs EXCEPT !.bs = bs, !.a = a],
               BitArray_insert(bits, pos, bs, a))

ArrayOverwrite ==
    /\ Idle
    /\ kind = "BitArray"
    /\ \E bs \in Subs, a \in Positions :
          Call("overwrite", [NoArgs EXCEPT !.bs = bs, !.a = a],
               BitArray_overwrite(bits, pos, bs, a))

ArrayAppend ==
    /\ Idle
    /\ kind = "BitArray"
    /\ \E bs \in Subs :
          Call("append", [NoArgs EXCEPT !.bs = bs], BitArray_append(bits, pos, bs))

ArrayPrepend ==
    /\ Idle
    /\ kind = "BitArray"
    /\ \E bs \in Subs :
          Call("prepend", [NoArgs EXCEPT !.bs = bs], BitArray_prepend(bits, pos, bs))

ArrayReplace(Starts, Ends, Counts) ==
    /\ Idle
    /\ kind = "BitArray"
    /\ \E old \in Subs, new \in Subs, a \in Starts, b \in Ends, c \in Counts,
          ba \in BOOLEAN :
          Call("replace",
               [NoArgs EXCEPT !.bs = old, !.new = new, !.a = a, !.b = b, !.c = c,
                              !.ba = ba],
               BitArray_replace(bits, pos, old, new, a, b, c, ba))

StreamReplace(Starts, Ends, Counts) ==
    /\ Idle
    /\ kind = "BitStream"
    /\ \E old \in Subs, new \in Subs, a \in Starts, b \in Ends, c \in Counts,
          ba \in BOOLEAN :
          Call("replace",
               [NoArgs EXCEPT !.bs = old, !.new = new, !.a = a, !.b = b, !.c = c,
                              !.ba = ba],
               BitStream_replace(bits, pos, old, new, a, b, c, ba))

\* the single-bit positions passed as arguments, one beyond each end
Indices == (0 - Len(bits) - 1)..Len(bits)

\* the iterables of positions passed to set and invert
PosLists == UNION {[1..k -> Indices] : k \in 0..MaxPosList}

Reverse ==
    /\ Idle
    /\ kind = "BitArray"
    /\ \E a \in Positions \cup {None}, b \in Positions \cup {None} :
          Call("reverse", [NoArgs EXCEPT !.a = a, !.b = b],
               BitArray_reverse(bits, pos, a, b))

Ror ==
    /\ Idle
    /\ kind = "BitArray"
    /\ \E n \in -1..(MaxLen + 1), a \in Positions \cup {None},
          b \in Positions \cup {None} :
          Call("ror", [NoArgs EXCEPT !.a = a, !.b = b, !.c = n],
               BitArray_ror(bits, pos, n, a, b))

Rol ==
    /\ Idle
    /\ kind = "BitArray"
    /\ \E n \in -1..(MaxLen + 1), a \in Positions \cup {None},
          b \in Positions \cup {None} :
          Call("rol", [NoArgs EXCEPT !.a = a, !.b = b, !.c = n],
               BitArray_rol(bits, pos, n, a, b))

\* args: a the integer pos or None, b the value, ba whether pos is an
\* iterable, fmt the iterable
Set ==
    /\ Idle
    /\ kind = "BitArray"
    /\ \E v \in Bit :
          \/ \E a \in Indices \cup {None} :
                Call("set", [NoArgs EXCEPT !.a = a, !.b = v],
                     BitArray_set(bits, pos, v, FALSE, a, <<>>))
          \/ \E ps \in PosLists :
                Call("set", [NoArgs EXCEPT !.b = v, !.ba = TRUE, !.fmt = ps],
                     BitArray_set(bits, pos, v, TRUE, None, ps))

Invert ==
    /\ Idle
    /\ kind = "BitArray"
    /\ \/ \E a \in Indices \cup {None} :
             Call("invert", [NoArgs EXCEPT !.a = a],
                  BitArray_invert(bits, pos, FALSE, a, <<>>))
       \/ \E ps \in PosLists :
             Call("invert", [NoArgs EXCEPT !.ba = TRUE, !.fmt = ps],
                  BitArray_invert(bits, pos, TRUE, None, ps))

GetItem ==
    /\ Idle
    /\ \E i \in Indices :
          Call("getitem", [NoArgs EXCEPT !.a = i], Bits_getitem(bits, pos, i))

Add ==
    /\ Idle
    /\ kind \in Kinds
    /\ \E bs \in Subs :
          Call("add", [NoArgs EXCEPT !.bs = bs], Bits_add(bits, pos, bs))

RAdd ==
    /\ Idle
    /\ kind \in Kinds
    /\ \E bs \in Subs :
          Call("radd", [NoArgs EXCEPT !.bs = bs], Bits_radd(bits, pos, bs))

\* the Dtype instances compared: two names, two lengths, no scale or one of two
Dtypes ==
    {Dtype(n, l, sc) : n \in {"uint", "e3m2mxfp"}, l \in {6, 8}, sc \in {None, 2, 4}}

DtypeEq ==
    /\ Idle
    /\ kind = "Dtype"
    /\ \E x \in Dtypes, y \in Dtypes :
          Call("dtype_eq", [NoArgs EXCEPT !.fmt = <<x, y>>],
               Out(bits, pos, "",
                   <<Val("bool", IF Dtype_eq(x, y) THEN 1 ELSE 0, <<>>)>>))

DtypeHash ==
    /\ Idle
    /\ kind = "Dtype"
    /\ \E x \in Dtypes, y \in Dtypes :
          Call("dtype_hash", [NoArgs EXCEPT !.fmt = <<x, y>>],
               Out(bits, pos, "",
                   <<Val("bool", IF Dtype_hash(x) = Dtype_hash(y) THEN 1 ELSE 0,
                         <<>>)>>))

\* a token of a format string, with its factor (0 when none is written)
Leaf(f, tok) == [f |-> f, tok |-> tok, sub |-> <<>>]

\* a bracketed group f*(sub) of a format string
Group(f, sub) == [f |-> f, tok |-> "", sub |-> sub]

Leaves == {Leaf(f, tok) : f \in 0..MaxFactor, tok \in {"a", "b"}}

\* the groups of plain tokens
Groups1 ==
    {Group(f, sub) : f \in 1..MaxFactor,
        sub \in UNION {[1..k -> {Leaf(0, tok) : tok \in {"a", "b"}}] : k \in 1..MaxItems}}

\* the groups that hold a group, alone or after a token
Groups2 ==
    {Group(f, sub) : f \in 1..MaxFactor,
        sub \in {<<g>> : g \in Groups1}
                \cup {<<Leaf(0, tok), g>> : tok \in {"a", "b"}, g \in Groups1}}

\* the format strings given to the parser, as the lists of items they are
\* written from
FormatTrees ==
    {<<x>> : x \in Leaves \cup Groups1 \cup Groups2}
    \cup {<<l, g>> : l \in Leaves, g \in Groups1 \cup Groups2}

RECURSIVE Render(_)
\* the format string written from a list of items: "a, 2*b, 2*(a, 3*(b, a))"
Render(items) ==
    IF items = <<>> THEN <<>>
    ELSE LET x    == items[1]
             fact == IF x.f = 0 THEN <<>> ELSE <<DigitChars[x.f + 1], "*">>
             body == IF x.tok # "" THEN <<x.tok>>
                     ELSE <<"(">> \o Render(x.sub) \o <<")">>
         IN  fact \o body
             \o (IF Len(items) = 1 THEN <<>> ELSE <<",", " ">> \o Render(Tail(items)))

TokenParser ==
    /\ Idle
    /\ kind = "tokenparser"
    /\ \E tree \in FormatTrees :
          LET r == tokenparser(Render(tree))
          IN  Call("tokenparser", [NoArgs EXCEPT !.bs = tree, !.fmt = Render(tree)],
                   Out(bits, pos, r.err,
                       IF r.err = "" THEN <<Val("tokens", 0, r.tokens)>> ELSE <<>>))

\* the token uint<n> of a format string
UintToken(n) == <<"u", "i", "n", "t", DigitChars[n + 1]>>

\* the lengths of the tokens of the format strings given to pack
PackLengths == UNION {[1..k -> 1..(MaxTokLen + 1)] : k \in 1..MaxToks}

\* the positional values given to pack
PackValues == UNION {[1..k -> Bit] : k \in 0..(MaxToks + 1)}

RECURSIVE PackFormat(_)
\* the format string "uint<n1>,uint<n2>,..." for the token lengths ls
PackFormat(ls) ==
    IF ls = <<>> THEN <<>>
    ELSE UintToken(ls[1])
         \o (IF Len(ls) = 1 THEN <<>> ELSE <<",">> \o PackFormat(Tail(ls)))

\* args: fmt the format string, new the lengths it was written from, bs the
\* positional values
Pack ==
    /\ Idle
    /\ kind = "pack"
    /\ \E ls \in PackLengths, values \in PackValues :
          Call("pack",
               [NoArgs EXCEPT !.fmt = PackFormat(ls), !.new = ls, !.bs = values],
               pack(PackFormat(ls), values))

\* two bytes that differ
ByteValues == {<<0, 0, 0, 0, 0, 0, 0, 1>>, <<1, 0, 0, 0, 0, 0, 1, 0>>}

RECURSIVE Flat(_)
\* the bytes of a list one after the other
Flat(bs) == IF bs = <<>> THEN <<>> ELSE bs[1] \o Flat(Tail(bs))

\* the bitstrings of whole bytes given to byteswap
ByteStrings == {Flat(bs) : bs \in UNION {[1..k -> ByteValues] : k \in 0..MaxBytes}}

\* one call on a bitstring of whole bytes, which keeps its length
CallBytes(op, args, o) ==
    /\ Len(o.bits) = Len(bits)
    /\ bits' = o.bits
    /\ pos' = o.pos
    /\ last' = [op |-> op, args |-> args, prebits |-> bits, prepos |-> pos,
                err |-> o.err, ret |-> o.ret]
    /\ UNCHANGED <<kind, copied>>

\* args: a and b the range, c the integer fmt or None, new the iterable fmt
\* (then bs is <<1>>), ba repeat
ByteSwap ==
    /\ Idle
    /\ kind = "BitArray"
    /\ \E a \in {None, 0, ByteBits}, b \in {None, ByteBits, Len(bits)},
          repeat \in BOOLEAN :
          \/ \E n \in {None} \cup 0..MaxBytes :
                CallBytes("byteswap",
                     [NoArgs EXCEPT !.a = a, !.b = b, !.c = n, !.ba = repeat],
                     BitArray_byteswap(bits, pos, TRUE, n, <<>>, a, b, repeat))
          \/ \E lst \in {<<1>>, <<MaxBytes>>, <<1, 1>>, <<ByteBits>>} :
                CallBytes("byteswap",
                     [NoArgs EXCEPT !.a = a, !.b = b, !.bs = <<1>>, !.new = lst,
                                    !.ba = repeat],
                     BitArray_byteswap(bits, pos, FALSE, None, lst, a, b, repeat))

\* the seven formats of the module
MXFPFormats ==
    {MXFPFormat("e2m1mxfp", 2, 1, 1, "saturate"),
     MXFPFormat("e2m3mxfp", 2, 3, 1, "saturate"),
     MXFPFormat("e3m2mxfp", 3, 2, 3, "saturate"),
     MXFPFormat("e4m3mxfp", 4, 3, 7, "saturate"),
     MXFPFormat("e5m2mxfp", 5, 2, 15, "saturate"),
     MXFPFormat("e4m3mxfp", 4, 3, 7, "overflow"),
     MXFPFormat("e5m2mxfp", 5, 2, 15, "overflow")}

\* the exponent field and the mantissa field of a format's largest finite
\* value: all ones, but e4m3 keeps its last code for NaN and e5m2 its last
\* exponent for the infinities and NaN
TopFields(fmt) ==
    IF fmt.exp_bits = 5 THEN <<Pow2(5) - 2, Pow2(fmt.mantissa_bits) - 1>>
    ELSE IF fmt.exp_bits = 4 THEN <<Pow2(4) - 1, Pow2(fmt.mantissa_bits) - 2>>
    ELSE <<Pow2(fmt.exp_bits) - 1, Pow2(fmt.mantissa_bits) - 1>>

\* half a unit in the last place of the largest finite value, in quarters
HalfUlp4(fmt) ==
    (Quarter * Pow2(TopFields(fmt)[1] - fmt.bias)) \div Pow2(fmt.mantissa_bits + 1)

\* the largest finite magnitude of a format, in quarters
MaxFinite4(fmt) ==
    2 * HalfUlp4(fmt) * (Pow2(fmt.mantissa_bits) + TopFields(fmt)[2])

\* args: fmt the format, a the sign, b the magnitude in quarters, ba isinf
FloatToInt ==
    /\ Idle
    /\ kind = "MXFPFormat"
    /\ \E fmt \in MXFPFormats, sign \in Bit, j \in 0..MaxOver :
          LET f4 == MaxFinite4(fmt) + j * HalfUlp4(fmt)
          IN  Call("float_to_int",
                   [NoArgs EXCEPT !.fmt = <<fmt>>, !.a = sign, !.b = f4, !.ba = j = 0],
                   Out(bits, pos, "",
                       <<Val("int", float_to_int(fmt, sign, f4, j = 0), <<>>)>>))

\* c = copy.copy(s), once
Copy ==
    /\ Idle
    /\ copied = NoCopy
    /\ copied' = << CASE kind = "ConstBitStream" -> ConstBitStream_copy(bits)
                      [] kind = "BitStream" -> BitStream_copy(bits)
                      [] kind = "BitArray" -> BitArray_copy(bits) >>
    /\ UNCHANGED <<kind, bits, pos, last>>

\* the dtypes whose read_fn is called
ReadTokens ==
    {Tok("uint", n) : n \in 1..MaxTokLen} \cup {Tok("bits", n) : n \in 0..MaxTokLen}
    \cup {Tok("bool", None), Tok("ue", None)}

\* args: fmt the dtype, a the start; the buffer is bits
ReadFn ==
    /\ Idle
    /\ kind = "DtypeDefinition"
    /\ \E tok \in ReadTokens, start \in 0..(MaxLen + 1) :
          Call("read_fn", [NoArgs EXCEPT !.fmt = <<tok>>, !.a = start],
               read_fn(tok, bits, start))

\* replace is called: the arguments are checked and the loop is entered.
\* While the call runs, err is "running", fmt holds at, end and count, and
\* ret the replacements made so far.
EnterReplace ==
    /\ Idle
    /\ kind \in {"BitArray", "BitStream"}
    /\ \E old \in Subs, new \in Subs, a \in {None, 1}, c \in {None, 1},
          ba \in BOOLEAN :
          LET e == replace_enter(bits, old, a, None, c)
          IN  Call("replace",
                   [NoArgs EXCEPT !.bs = old, !.new = new, !.a = a, !.c = c,
                                  !.ba = ba, !.fmt = <<e.at, e.end, e.count>>],
                   Out(bits, pos, IF e.err = "" THEN "running" ELSE e.err,
                       <<Val("int", 0, <<>>)>>))

\* the next state of a running replace after the step r
Stepped(r) ==
    /\ bits' = r.bits
    /\ pos' = r.pos
    /\ last' = [last EXCEPT !.err = IF r.done THEN r.err ELSE "running",
                            !.args.fmt = <<r.at, r.end, r.count>>,
                            !.ret = <<Val("int", r.replacements, <<>>)>>]
    /\ UNCHANGED <<kind, copied>>

ArrayReplaceStep ==
    /\ last.op = "replace"
    /\ last.err = "running"
    /\ kind = "BitArray"
    /\ Stepped(BitArray_replace_step(bits, pos, last.args.bs, last.args.new,
                                     last.args.fmt[1], last.args.fmt[2],
                                     last.args.fmt[3], last.args.ba,
                                     last.ret[1].n))

StreamReplaceStep ==
    /\ last.op = "replace"
    /\ last.err = "running"
    /\ kind = "BitStream"
    /\ Stepped(BitStream_replace_step(bits, pos, last.args.bs, last.args.new,
                                      last.args.fmt[1], last.args.fmt[2],
                                      last.args.fmt[3], last.args.ba,
                                      last.ret[1].n))

\* the item widths of an Array whose data has no trailing bits
Widths == {w \in 1..MaxTokLen : Len(bits) % w = 0}

\* the item indices tried, beyond both ends
ItemIndices(w) == (0 - Array_len(bits, w) - 1)..(Array_len(bits, w) + 1)

\* args: c the item width, a the index, b the value
ItemInsert ==
    /\ Idle
    /\ kind = "Array"
    /\ \E w \in Widths :
       \E i \in ItemIndices(w), x \in 0..(Pow2(w) - 1) :
          Call("insert", [NoArgs EXCEPT !.c = w, !.a = i, !.b = x],
               Array_insert(bits, w, i, x))

ItemPop ==
    /\ Idle
    /\ kind = "Array"
    /\ \E w \in Widths :
       \E i \in ItemIndices(w) :
          Call("pop", [NoArgs EXCEPT !.c = w, !.a = i], Array_pop(bits, w, i))

ItemGet ==
    /\ Idle
    /\ kind = "Array"
    /\ \E w \in Widths :
       \E i \in ItemIndices(w) :
          Call("getitem", [NoArgs EXCEPT !.c = w, !.a = i],
               Array_getitem(bits, w, i))

\* the lengths put in a tuple of allowed lengths: small ones and whole bytes
Members == (1..MaxAllowed) \cup {ByteBits, 2 * ByteBits}

\* the tuples an AllowedLengths is built from: empty, plain, and increasing
\* ones that end in an Ellipsis
LengthTuples ==
    {<<>>} \cup {<<a>> : a \in Members} \cup {<<a, b>> : a \in Members, b \in Members}
    \cup {<<t[1], t[2], Ellipsis>> : t \in {u \in Members \X Members : u[1] < u[2]}}
    \cup {<<t[1], t[2], t[3], Ellipsis>> :
            t \in {u \in Members \X Members \X Members : u[1] < u[2] /\ u[2] < u[3]}}

\* n in AllowedLengths(value). args: fmt the tuple, a the length n
LengthAllowed ==
    /\ Idle
    /\ kind = "AllowedLengths"
    /\ \E value \in LengthTuples, n \in (0 - ByteBits)..(3 * ByteBits) :
          LET al == AllowedLengths(value)
          IN  Call("contains", [NoArgs EXCEPT !.fmt = value, !.a = n],
                   Out(bits, pos, al.err,
                       IF al.err # "" THEN <<>>
                       ELSE <<Val("bool", IF contains(al.values, n) THEN 1 ELSE 0,
                                  <<>>)>>))

-----------------------------------------------------------------------------
(* Specifications.                                                         *)

\* every method of the three classes, the searches with default or simple ranges
Init == InitKinds(Kinds)

Next ==
    \/ Return
    \/ SetPos
    \/ SetBytePos
    \/ Read
    \/ Peek
    \/ ReadTo
    \/ Find({None, 1}, {None})
    \/ RFind({None}, {None, 2})
    \/ StreamAppend
    \/ Overwrite
    \/ IAdd
    \/ Prepend
    \/ SetItem
    \/ DelItem
    \/ Insert
    \/ Replace({None, 1}, {None, 2}, {None, 1})
    \/ Clear
    \/ ArrayInsert
    \/ ArrayOverwrite
    \/ ArrayAppend
    \/ ArrayPrepend

Spec == Init /\ [][Next]_vars

\* a stream and its reading methods
InitRead == InitKinds({"ConstBitStream"})

NextRead ==
    \/ Return
    \/ SetPos
    \/ Read
    \/ Peek
    \/ ReadList
    \/ PeekList
    \/ ReadTo

SpecRead == InitRead /\ [][NextRead]_vars

\* a stream and find over every range
InitFind == InitKinds({"ConstBitStream"})

NextFind ==
    \/ Return
    \/ SetPos
    \/ Find(Positions \cup {None}, Positions \cup {None})

SpecFind == InitFind /\ [][NextFind]_vars

\* the editing methods of BitStream and BitArray
InitEdit == InitKinds({"BitStream", "BitArray"})

NextEdit ==
    \/ Return
    \/ SetPos
    \/ StreamAppend
    \/ Overwrite
    \/ IAdd
    \/ Prepend
    \/ SetItem
    \/ DelItem
    \/ Insert
    \/ Replace({None}, {None}, {None})
    \/ Clear
    \/ ArrayInsert
    \/ ArrayOverwrite
    \/ ArrayAppend
    \/ ArrayPrepend

SpecEdit == InitEdit /\ [][NextEdit]_vars

\* replace on a BitStream and on a BitArray, over regions and counts
InitReplace == InitKinds({"BitStream", "BitArray"})

NextReplace ==
    \/ Return
    \/ StreamReplace({None, 0, 1}, {None, Len(bits) - 1}, {None, 1})
    \/ ArrayReplace({None, 0, 1}, {None, Len(bits) - 1}, {None, 1})

SpecReplace == InitReplace /\ [][NextReplace]_vars

\* the in-place methods of a BitArray and single-bit indexing
InitArray == InitKinds({"BitArray"})

NextArray ==
    \/ Return
    \/ Reverse
    \/ Ror
    \/ Rol
    \/ Set
    \/ Invert
    \/ GetItem

SpecArray == InitArray /\ [][NextArray]_vars

\* concatenation with a bitstring of any class on either side
InitAdd == InitKinds(Kinds)

NextAdd ==
    \/ Return
    \/ Add
    \/ RAdd

SpecAdd == InitAdd /\ [][NextAdd]_vars

\* comparing and hashing pairs of Dtype instances
InitDtype ==
    /\ kind = "Dtype"
    /\ bits = <<>>
    /\ pos = 0
    /\ last = NoCall
    /\ copied = NoCopy

NextDtype ==
    \/ Return
    \/ DtypeEq
    \/ DtypeHash

SpecDtype == InitDtype /\ [][NextDtype]_vars

\* parsing format strings
InitTokens ==
    /\ kind = "tokenparser"
    /\ bits = <<>>
    /\ pos = 0
    /\ last = NoCall
    /\ copied = NoCopy

NextTokens ==
    \/ Return
    \/ TokenParser

SpecTokens == InitTokens /\ [][NextTokens]_vars

\* packing values into a new BitStream
InitPack ==
    /\ kind = "pack"
    /\ bits = <<>>
    /\ pos = 0
    /\ last = NoCall
    /\ copied = NoCopy

NextPack ==
    \/ Return
    \/ Pack

SpecPack == InitPack /\ [][NextPack]_vars

\* byteswap on BitArrays of whole bytes
InitSwap ==
    /\ kind = "BitArray"
    /\ bits \in ByteStrings
    /\ pos = 0
    /\ last = NoCall
    /\ copied = NoCopy

NextSwap ==
    \/ Return
    \/ ByteSwap

SpecSwap == InitSwap /\ [][NextSwap]_vars

\* encoding floats above the largest finite magnitude, and the infinities
InitMXFP ==
    /\ kind = "MXFPFormat"
    /\ bits = <<>>
    /\ pos = 0
    /\ last = NoCall
    /\ copied = NoCopy

NextMXFP ==
    \/ Return
    \/ FloatToInt

SpecMXFP == InitMXFP /\ [][NextMXFP]_vars

\* an object, its copy, and mutations of the object
InitCopy == InitKinds(Kinds)

NextCopy ==
    \/ Return
    \/ Copy
    \/ StreamAppend
    \/ Overwrite
    \/ Insert
    \/ DelItem
    \/ ArrayPrepend
    \/ Set
    \/ Invert

SpecCopy == InitCopy /\ [][NextCopy]_vars

\* read_fn of the dtype families on every buffer
InitReadFn ==
    /\ kind = "DtypeDefinition"
    /\ bits \in BitSeqs(MaxLen)
    /\ pos = 0
    /\ last = NoCall
    /\ copied = NoCopy

NextReadFn ==
    \/ Return
    \/ ReadFn

SpecReadFn == InitReadFn /\ [][NextReadFn]_vars

\* one replace on a new bitstring, step by step
InitLoop ==
    /\ InitKinds({"BitStream", "BitArray"})
    /\ pos = 0

NextLoop ==
    \/ EnterReplace
    \/ ArrayReplaceStep
    \/ StreamReplaceStep

SpecLoop == InitLoop /\ [][NextLoop]_vars

\* an Array of uint items
InitItems ==
    /\ kind = "Array"
    /\ bits \in BitSeqs(MaxLen)
    /\ pos = 0
    /\ last = NoCall
    /\ copied = NoCopy

NextItems ==
    \/ Return
    \/ ItemInsert
    \/ ItemPop
    \/ ItemGet

SpecItems == InitItems /\ [][NextItems]_vars

\* membership in an AllowedLengths
InitLengths ==
    /\ kind = "AllowedLengths"
    /\ bits = <<>>
    /\ pos = 0
    /\ last = NoCall
    /\ copied = NoCopy

NextLengths ==
    \/ Return
    \/ LengthAllowed

SpecLengths == InitLengths /\ [][NextLengths]_vars

-----------------------------------------------------------------------------
(* The claims.                                                             *)

\* the position argument of the last call, the cursor before it when omitted
LastAt == IF last.args.a = None THEN last.prepos ELSE last.args.a

\* bits [a, b) of s for 0 <= a <= b <= Len(s)
Range(s, a, b) == SubSeq(s, a + 1, b)

\* C1: after any sequence of BitStream operations the cursor satisfies
\* 0 <= pos <= len(stream).
C1_PosInRange == kind = "BitStream" => (0 <= pos /\ pos <= Len(bits))

\* C2: a ConstBitStream is immutable in content: no call available on it
\* changes its length or its bits, only pos may change.
C2_ConstContentFixed == [][kind = "ConstBitStream" => bits' = bits]_vars

TokenOf(fmt) == IF fmt.name = "#" THEN Tok("bits", fmt.length) ELSE fmt

\* what the token fmt decodes to at cursor p of s and where it ends: a fixed
\* length token takes bitlength bits, ue takes the bits of its code
Decoded(s, p, fmt) ==
    LET tok == TokenOf(fmt)
        L   == bitlength(tok)
    IN  IF L = None
        THEN LET u == readue(s, p)
             IN  [fits |-> u.err = "", end |-> u.newpos,
                  value |-> Val("int", u.value, <<>>)]
        ELSE [fits |-> p + L <= Len(s), end |-> p + L,
              value |-> IF p + L <= Len(s) THEN get_fn(tok, Range(s, p, p + L))
                        ELSE Val("None", 0, <<>>)]

\* C4: read(fmt) with enough bits after the cursor p returns the decoding of
\* bits [p, p+L) and leaves pos = p + L, where L is the token's bit-length
\* (8*k for bytes:k); for a variable-length token pos advances by the bits
\* the decoder consumed.
C4_ReadAdvances ==
    (last.op = "read" /\ Decoded(last.prebits, last.prepos, last.args.fmt[1]).fits)
    => LET d == Decoded(last.prebits, last.prepos, last.args.fmt[1])
       IN  /\ last.err = ""
           /\ last.ret = <<d.value>>
           /\ pos = d.end

\* C5: read(fmt) with fewer bits after pos than the token needs raises
\* ReadError and leaves pos and the bits as they were.
C5_ReadErrorKeepsState ==
    (last.op = "read" /\ ~Decoded(last.prebits, last.prepos, last.args.fmt[1]).fits)
    => /\ last.err = "ReadError"
       /\ pos = last.prepos
       /\ bits = last.prebits

RECURSIVE DecodedList(_, _, _, _, _)
\* the tokens of fmt from i on decoded one after the other from cursor p
DecodedList(s, p, fmt, i, acc) ==
    IF i > Len(fmt) THEN [fits |-> TRUE, end |-> p, values |-> acc]
    ELSE LET d == Decoded(s, p, fmt[i])
         IN  IF ~d.fits THEN [fits |-> FALSE, end |-> p, values |-> acc]
             ELSE DecodedList(s, d.end, fmt, i + 1,
                      IF fmt[i].name = "pad" THEN acc ELSE Append(acc, d.value))

\* C7: readlist(fmt) returns, in token order, one decoded value for every
\* token that is not a pad token and advances pos by the sum of the
\* bit-lengths of all tokens, the pad tokens included.
C7_ReadList ==
    (last.op = "readlist"
        /\ DecodedList(last.prebits, last.prepos, last.args.fmt, 1, <<>>).fits)
    => LET d == DecodedList(last.prebits, last.prepos, last.args.fmt, 1, <<>>)
       IN  /\ last.err = ""
           /\ last.ret = d.values
           /\ pos = d.end

\* C8: readto(sub) from cursor p finds the first occurrence of sub at or after
\* p; when it starts at m the call returns bits [p, m + len(sub)) and leaves
\* pos = m + len(sub); when there is none it raises ReadError.
C8_ReadTo ==
    (last.op = "readto" /\ last.args.bs # <<>>)
    => LET M == Matches(last.prebits, last.args.bs, last.prepos,
                        Len(last.prebits), last.args.ba)
       IN  IF M = {} THEN last.err = "ReadError"
           ELSE /\ last.err = ""
                /\ last.ret = <<Val("bits", 0,
                        Range(last.prebits, last.prepos, Min(M) + Len(last.args.bs)))>>
                /\ pos = Min(M) + Len(last.args.bs)

C10_Insert ==
    last.op = "insert" =>
       LET s  == last.prebits
           at == LastAt
       IN  IF 0 <= at /\ at <= Len(s)
           THEN /\ last.err = ""
                /\ bits = Range(s, 0, at) \o last.args.bs \o Range(s, at, Len(s))
                /\ Len(bits) = Len(s) + Len(last.args.bs)
           ELSE /\ last.err = "ValueError"
                /\ bits = s

\* an insertion of some bits strictly inside a BitArray
C10_Witness ==
    /\ kind = "BitArray"
    /\ last.op = "insert"
    /\ last.err = ""
    /\ last.args.bs # <<>>
    /\ 0 < last.args.a
    /\ last.args.a < Len(last.prebits)
    /\ Len(bits) = Len(last.prebits) + Len(last.args.bs)

\* C11: overwrite(bs, pos) with 0 <= pos <= len, on a BitArray and on a
\* BitStream alike, leaves bits [pos, pos+len(bs)) equal to bs, every other
\* bit that was there unchanged and the length max(old length, pos + len(bs)).
C11_Overwrite ==
    (last.op = "overwrite" /\ 0 <= LastAt /\ LastAt <= Len(last.prebits))
    => LET s   == last.prebits
           at  == LastAt
           end == at + Len(last.args.bs)
       IN  /\ last.err = ""
           /\ Len(bits) = (IF end > Len(s) THEN end ELSE Len(s))
           /\ Range(bits, at, end) = last.args.bs
           /\ \A i \in 1..Len(s) : (i <= at \/ i > end) => bits[i] = s[i]

RECURSIVE Replaced(_, _, _, _, _, _, _)
\* s with the occurrences of old that lie in [at, end) replaced by new, scanning
\* forward and resuming after each inserted new, at most count of them when
\* count >= 0; n counts the replacements
Replaced(s, old, new, at, end, count, bytealigned) ==
    LET M == Matches(s, old, at, end, bytealigned)
    IN  IF count = 0 \/ M = {} THEN [bits |-> s, n |-> 0]
        ELSE LET m == Min(M)
                 r == Replaced(Range(s, 0, m) \o new \o Range(s, m + Len(old), Len(s)),
                               old, new, m + Len(new),
                               end + Len(new) - Len(old), count - 1, bytealigned)
             IN  [bits |-> r.bits, n |-> r.n + 1]

\* C12: replace(old, new, start, end, count) scans forward from start,
\* replaces each occurrence of old inside the region, resumes immediately
\* after the inserted new, stops after count replacements when count is given
\* and returns the number of replacements made; BitArray.replace and
\* BitStream.replace give the same bits and return value for the same
\* arguments.
C12_Replace ==
    (last.op = "replace" /\ last.err = "")
    => LET a  == last.args
           s  == last.prebits
           st == IF a.a = None THEN 0 ELSE a.a
           en == IF a.b = None THEN Len(s) ELSE a.b
           ct == IF a.c = None THEN -1 ELSE a.c
           r  == Replaced(s, a.bs, a.new, st, en, ct, a.ba)
           x  == BitArray_replace(s, 0, a.bs, a.new, a.a, a.b, a.c, a.ba)
           y  == BitStream_replace(s, 0, a.bs, a.new, a.a, a.b, a.c, a.ba)
       IN  /\ bits = r.bits
           /\ last.ret = <<Val("int", r.n, <<>>)>>
           /\ x.bits = y.bits
           /\ x.ret = y.ret

\* C13: after replace(old, new) with default start, end and count no
\* occurrence of old is left in the bitstring and the returned count is the
\* number of changes made.
C13_NoneLeft ==
    (last.op = "replace" /\ last.err = "" /\ last.args.a = None
        /\ last.args.b = None /\ last.args.c = None /\ ~last.args.ba)
    => /\ Matches(bits, last.args.bs, 0, Len(bits), FALSE) = {}
       /\ last.ret[1].n =
             Replaced(last.prebits, last.args.bs, last.args.new, 0,
                      Len(last.prebits), -1, FALSE).n

\* the start and end of the range given to the last call, None standing for
\* 0 and the length
LastStart == IF last.args.a = None THEN 0 ELSE last.args.a

LastEnd == IF last.args.b = None THEN Len(last.prebits) ELSE last.args.b

\* the last call was given a range with 0 <= start <= end <= len
LastRangeValid ==
    0 <= LastStart /\ LastStart <= LastEnd /\ LastEnd <= Len(last.prebits)

\* bit i (0-based) of t is bit i of s for every i outside [a, b)
SameOutside(s, t, a, b) ==
    /\ Len(t) = Len(s)
    /\ \A i \in 0..(Len(s) - 1) : (i < a \/ i >= b) => t[i + 1] = s[i + 1]

\* C14: reverse(start, end) with 0 <= start <= end <= len reverses the order
\* of exactly the bits in [start, end), leaves the bits outside the range and
\* the length unchanged, and applied twice restores the original bitstring.
C14_Reverse ==
    (last.op = "reverse" /\ LastRangeValid)
    => /\ last.err = ""
       /\ SameOutside(last.prebits, bits, LastStart, LastEnd)
       /\ \A i \in LastStart..(LastEnd - 1) :
             bits[i + 1] = last.prebits[(LastStart + LastEnd - 1 - i) + 1]
       /\ BitArray_reverse(bits, pos, last.args.a, last.args.b).bits = last.prebits

\* a reversal of a range strictly inside the bitstring that changed it
C14_Witness ==
    /\ last.op = "reverse"
    /\ last.err = ""
    /\ 0 < LastStart
    /\ LastEnd < Len(last.prebits)
    /\ LastEnd - LastStart >= 2
    /\ bits # last.prebits

\* C15: for any range [start, end) of a BitArray and any n >= 0, rol(n)
\* followed by ror(n) over the range restores the original bits, rol(end -
\* start) is the identity, rotating by n has the effect of rotating by
\* n mod (end - start), and the bits outside the range never change.
C15_Rotate ==
    (last.op \in {"rol", "ror"} /\ last.args.c >= 0 /\ LastRangeValid)
    => LET s == last.prebits
           n == last.args.c
           L == LastEnd - LastStart
           a == last.args.a
           b == last.args.b
       IN  /\ last.err = ""
           /\ SameOutside(s, bits, LastStart, LastEnd)
           /\ n = L => bits = s
           /\ last.op = "rol" =>
                 /\ BitArray_ror(bits, pos, n, a, b).bits = s
                 /\ L > 0 => bits = BitArray_rol(s, pos, n % L, a, b).bits
                 /\ \A i \in 0..(L - 1) :
                       bits[LastStart + i + 1] = s[LastStart + ((i + n) % L) + 1]
           /\ last.op = "ror" =>
                 /\ BitArray_rol(bits, pos, n, a, b).bits = s
                 /\ L > 0 => bits = BitArray_ror(s, pos, n % L, a, b).bits

\* how many times the position i (0-based) is named in the list ps given to a
\* bitstring of n bits
RECURSIVE Named(_, _, _)
Named(ps, n, i) ==
    IF ps = <<>> THEN 0
    ELSE (IF ps[1] = i \/ ps[1] + n = i THEN 1 ELSE 0) + Named(Tail(ps), n, i)

\* the positions given to the last set or invert: an iterable, one integer, or
\* every position for None
LastPositions ==
    IF last.args.ba THEN last.args.fmt
    ELSE IF last.args.a = None THEN [i \in 1..Len(last.prebits) |-> i - 1]
    ELSE <<last.args.a>>

\* C16: set(value, pos) makes exactly the bits at the given positions equal to
\* bool(value) and invert(pos) toggles exactly the bits at the given positions
\* (p < 0 means len + p, None means every bit); every other bit and the length
\* are unchanged, and invert(p) applied twice is the identity.
C16_SetInvert ==
    (/\ last.op \in {"set", "invert"}
     /\ \A k \in 1..Len(LastPositions) :
           /\ 0 - Len(last.prebits) <= LastPositions[k]
           /\ LastPositions[k] < Len(last.prebits))
    => LET s == last.prebits
       IN  /\ last.err = ""
           /\ Len(bits) = Len(s)
           /\ last.op = "set" =>
                 \A i \in 0..(Len(s) - 1) :
                    bits[i + 1] = IF Named(LastPositions, Len(s), i) > 0
                                  THEN last.args.b ELSE s[i + 1]
           /\ last.op = "invert" =>
                 /\ \A i \in 0..(Len(s) - 1) :
                       bits[i + 1] = IF Named(LastPositions, Len(s), i) % 2 = 1
                                     THEN 1 - s[i + 1] ELSE s[i + 1]
                 /\ BitArray_invert(bits, pos, last.args.ba, last.args.a,
                                    last.args.fmt).bits = s

\* C17: in MSB0 mode s[i] for 0 <= i < len(s) is the i-th bit from the left,
\* True exactly when s[i:i+1] == '0b1'; s[-1] is the rightmost bit; an index
\* outside [-len, len) raises IndexError.
C17_GetItem ==
    last.op = "getitem" =>
       LET s == last.prebits
           i == last.args.a
           j == IF i < 0 THEN i + Len(s) ELSE i
       IN  IF 0 - Len(s) <= i /\ i < Len(s)
           THEN /\ last.err = ""
                /\ last.ret = <<Val("bool", s[j + 1], <<>>)>>
                /\ (last.ret[1].n = 1) <=> (getslice(s, j, j + 1) = <<1>>)
           ELSE last.err = "IndexError"

\* the operands of the last + in the order they are written: self + bs for
\* __add__, bs + self for __radd__
LastLeft == IF last.op = "add" THEN last.prebits ELSE last.args.bs

LastRight == IF last.op = "add" THEN last.args.bs ELSE last.prebits

C19_DtypeEquality ==
    last.op \in {"dtype_eq", "dtype_hash"} =>
       LET x == last.args.fmt[1]
           y == last.args.fmt[2]
       IN  (last.ret[1].n = 1) <=>
              (x.name = y.name /\ x.length = y.length /\ x.scale = y.scale)

RECURSIVE Copies(_, _)
\* n copies of the list l one after the other
Copies(l, n) == IF n <= 0 THEN <<>> ELSE l \o Copies(l, n - 1)

RECURSIVE Expansion(_)
\* the token names a list of items stands for: factor copies of a token, N
\* repetitions of the expansion of a group
Expansion(items) ==
    IF items = <<>> THEN <<>>
    ELSE LET x == items[1]
         IN  (IF x.tok # "" THEN Copies(<<x.tok>>, IF x.f = 0 THEN 1 ELSE x.f)
              ELSE Copies(Expansion(x.sub), x.f))
             \o Expansion(Tail(items))

\* C20: the token parser expands factor*token into exactly factor consecutive
\* copies of the token and N*(sub1, sub2, ...) into N repetitions of the inner
\* token list, recursively for nested groups; expansion always terminates.
C20_TokenExpansion ==
    last.op = "tokenparser" =>
       LET want == Expansion(last.args.bs)
       IN  /\ last.err = ""
           /\ last.ret[1].b =
                 [i \in 1..Len(want) |-> [name |-> <<want[i]>>, length |-> None]]

RECURSIVE UintBits(_, _)
\* the n-bit big-endian encoding of v
UintBits(v, n) ==
    IF n = 0 THEN <<>> ELSE UintBits(v \div 2, n - 1) \o <<v % 2>>

RECURSIVE Packed(_, _)
\* the encodings of the values vs under the token lengths ls, one after the
\* other
Packed(ls, vs) ==
    IF ls = <<>> THEN <<>>
    ELSE UintBits(vs[1], ls[1]) \o Packed(Tail(ls), Tail(vs))

\* C21: pack(fmt, *values) consumes the positional values in order, one per
\* token without an embedded value; it raises CreationError when the values
\* run out before the tokens or when a value is left over; otherwise it
\* returns a BitStream whose bits are the tokens' encodings in token order.
C21_Pack ==
    last.op = "pack" =>
       IF Len(last.args.bs) # Len(last.args.new)
       THEN last.err = "CreationError"
       ELSE /\ last.err = ""
            /\ last.ret = <<Val("bits", 0, Packed(last.args.new, last.args.bs))>>

RECURSIVE SwappedChunks(_, _, _, _)
\* s with the bytes of each chunk reversed, the chunks of ws[i..] bytes lying
\* one after the other from bit at on
SwappedChunks(s, at, ws, i) ==
    IF i > Len(ws) THEN s
    ELSE LET e == at + 8 * ws[i]
             c == Range(s, at, e)
             r == [k \in 1..Len(c) |->
                      c[Len(c) - 8 * ((k - 1) \div 8 + 1) + ((k - 1) % 8) + 1]]
         IN  SwappedChunks(Range(s, 0, at) \o r \o Range(s, e, Len(s)), e, ws, i + 1)

RECURSIVE Swapped(_, _, _, _, _)
\* the pattern ws of chunk widths in bytes applied from bit at while a whole
\* pattern fits before end, once only when repeat is false; n counts the
\* repetitions
Swapped(s, at, ws, end, repeat) ==
    LET w == 8 * sum(ws)
    IN  IF w = 0 \/ at + w > end THEN [bits |-> s, n |-> 0]
        ELSE IF ~repeat THEN [bits |-> SwappedChunks(s, at, ws, 1), n |-> 1]
        ELSE LET r == Swapped(SwappedChunks(s, at, ws, 1), at + w, ws, end, repeat)
             IN  [bits |-> r.bits, n |-> r.n + 1]

\* C22: byteswap(fmt, start, end, repeat) treats fmt as a list of chunk widths
\* in bytes (None or 0: the whole range as one chunk), reverses the bytes
\* inside each chunk in place, repeats the pattern while a whole one fits
\* (once when repeat is False) and returns the number of repetitions; with no
\* fmt the k bytes of a bitstring come out in reverse order.
C22_Byteswap ==
    (last.op = "byteswap" /\ LastRangeValid)
    => LET s  == last.prebits
           ws == IF last.args.bs = <<1>> THEN last.args.new
                 ELSE IF last.args.c = None \/ last.args.c = 0
                 THEN <<(LastEnd - LastStart) \div 8>>
                 ELSE <<last.args.c>>
           r  == Swapped(s, LastStart, ws, LastEnd, last.args.ba)
       IN  /\ last.err = ""
           /\ bits = r.bits
           /\ last.ret = <<Val("int", r.n, <<>>)>>

\* the code a value beyond the largest finite magnitude is to be encoded to:
\* in saturate mode the largest finite code with the value's sign, in overflow
\* mode the overflow code
ClampCode(fmt, sign) ==
    LET e4m3 == fmt.exp_bits = 4
        e5m2 == fmt.exp_bits = 5
    IN  IF fmt.mxfp_overflow = "saturate"
        THEN (IF e4m3 THEN 126 ELSE IF e5m2 THEN 123
              ELSE 2 ^ (fmt.exp_bits + fmt.mantissa_bits) - 1)
             + sign * 2 ^ (fmt.exp_bits + fmt.mantissa_bits)
        ELSE IF e5m2 THEN 124 + sign * 128
        ELSE 255

\* C23: for every MXFP format, a value whose magnitude exceeds the largest
\* finite magnitude is encoded in saturate mode to the clamp code of that
\* magnitude with the value's sign (126/254 for e4m3, 123/251 for e5m2) and in
\* overflow mode to the overflow code (124/252 for e5m2, 255 for e4m3), and
\* to no other code.
C23_MXFPClamp ==
    last.op = "float_to_int" =>
       last.ret = <<Val("int", ClampCode(last.args.fmt[1], last.args.a), <<>>)>>

\* C24: a mutation of one object (append, prepend, insert, overwrite, set,
\* invert, delete) never changes the bits observed through its copy.
C24_CopiesIndependent ==
    [][copied # NoCopy =>
          getbits(copied[1], bits') = getbits(copied[1], bits)]_vars

\* C25: on a BitStream, insert(bs, pos) and overwrite(bs, pos) leave the
\* cursor at pos + len(bs), where pos defaults to the cursor before the call,
\* and append and += leave the cursor at the end of the stream.
C25_CursorAfterWrite ==
    (kind = "BitStream" /\ last.err = "") =>
       CASE last.op \in {"insert", "overwrite"} ->
               pos = (IF last.args.a = None THEN last.prepos ELSE last.args.a)
                     + Len(last.args.bs)
         [] last.op \in {"append", "iadd"} -> pos = Len(bits)
         [] OTHER -> TRUE

\* an overwrite at the cursor, inside the stream, has moved the cursor past
\* the section written
C25_Witness ==
    /\ kind = "BitStream"
    /\ last.op = "overwrite"
    /\ last.err = ""
    /\ last.args.a = None
    /\ last.prepos > 0
    /\ Len(last.args.bs) > 0
    /\ Len(bits) = Len(last.prebits)
    /\ pos = last.prepos + Len(last.args.bs)

\* C26: a fixed-length family's read_fn(buffer, start) raises ReadError
\* whenever start + bitlength > len(buffer), for a family with a single
\* allowed length as for a length-parameterised one, and otherwise returns
\* get_fn of bits [start, start + bitlength); a variable-length family's
\* read_fn returns (value, start + consumed bits) and raises ReadError for a
\* code cut off by the end of the buffer.
C26_ReadFn ==
    last.op = "read_fn" =>
       LET tok == last.args.fmt[1]
           d   == Decoded(last.prebits, last.args.a, tok)
       IN  IF ~d.fits THEN last.err = "ReadError"
           ELSE /\ last.err = ""
                /\ last.ret = IF bitlength(tok) = None
                              THEN <<d.value, Val("int", d.end, <<>>)>>
                              ELSE <<d.value>>

\* C27: set(value, pos) and invert(pos) with an iterable of positions that
\* contains an out-of-range position raise IndexError and leave the bitstring
\* exactly as it was before the call.
C27_SetInvertAtomic ==
    (/\ last.op \in {"set", "invert"}
     /\ last.args.ba
     /\ \E i \in 1..Len(last.args.fmt) :
           \/ last.args.fmt[i] < 0 - Len(last.prebits)
           \/ last.args.fmt[i] >= Len(last.prebits))
    => (last.err = "IndexError" /\ bits = last.prebits)

\* what is left for the loop of a running replace to do: the bits between at
\* and end, and for a BitArray, whose end stays while the bits go, the bits
\* themselves as well
Variant(k, s, l) ==
    IF k = "BitArray" THEN l.args.fmt[2] - l.args.fmt[1] + Len(s)
    ELSE l.args.fmt[2] - l.args.fmt[1]

\* C28: replace(old, new, ...) terminates for every non-empty old and every
\* new (empty, containing old, longer or shorter than old), on BitArray and
\* on BitStream: every pass of its loop that does not leave the loop makes a
\* natural number smaller.
C28_ReplaceTerminates ==
    [][(last.err = "running" /\ last'.err = "running")
          => /\ Variant(kind, bits', last') >= 0
             /\ Variant(kind, bits', last') < Variant(kind, bits, last)]_vars

\* new contains old at offset k
Contains(new, old) ==
    \E k \in 0..(Len(new) - Len(old)) : SubSeq(new, k + 1, k + Len(old)) = old

\* a replace whose new is longer than old and contains it has ended after
\* two replacements
C28_Witness ==
    /\ last.op = "replace"
    /\ last.err = ""
    /\ Len(last.args.new) > Len(last.args.bs)
    /\ Contains(last.args.new, last.args.bs)
    /\ last.ret[1].n >= 2

\* item k of w bits of the data s
Item(s, w, k) == SubSeq(s, k * w + 1, (k + 1) * w)

\* C29: on an Array of n items without trailing bits, insert(i, x) with
\* 0 <= i <= n puts the item x at i before the former items i..n-1, so that
\* pop(i), which returns item i and takes it out, gives x and the former data
\* back; pop or an integer index outside [-n, n) raises IndexError and leaves
\* the data as it was.
C29_InsertPop ==
    (kind = "Array" /\ last.op \in {"insert", "pop", "getitem"}) =>
       LET s == last.prebits
           w == last.args.c
           n == Len(s) \div w
           i == last.args.a
       IN  CASE last.op = "insert" /\ 0 <= i /\ i <= n ->
                  /\ last.err = ""
                  /\ bits = SubSeq(s, 1, i * w) \o UintBits(last.args.b, w)
                            \o SubSeq(s, i * w + 1, Len(s))
             [] last.op = "pop" /\ 0 <= i /\ i < n ->
                  /\ last.err = ""
                  /\ last.ret = <<Val("int", getuint(Item(s, w, i)), <<>>)>>
                  /\ bits = SubSeq(s, 1, i * w) \o SubSeq(s, (i + 1) * w + 1, Len(s))
             [] last.op \in {"pop", "getitem"} /\ (i < 0 - n \/ i >= n) ->
                  /\ last.err = "IndexError"
                  /\ bits = s
             [] OTHER -> TRUE

\* C30: an AllowedLengths built from (a, b, ...) accepts n exactly when n is
\* one of a, b, a + 2(b - a), ... (for the whole-byte families the positive
\* multiples of 8, never 0 or a negative length); built from an empty tuple it
\* accepts every length, and from a plain tuple exactly its members.
C30_AllowedLengths ==
    (last.op = "contains" /\ last.err = "") =>
       LET value == last.args.fmt
           n     == last.args.a
           yes   == last.ret = <<Val("bool", 1, <<>>)>>
       IN  IF value = <<>> THEN yes
           ELSE IF value[Len(value)] = Ellipsis
           THEN yes <=> \E k \in 0..(4 * ByteBits) :
                           n = value[1] + k * (value[2] - value[1])
           ELSE yes <=> \E i \in 1..Len(value) : value[i] = n

====
